---- MODULE Spec2Model ----
(***************************************************************************)
(* A model of ycard-core: the alias store (i18n.rs), the lenient document  *)
(* assembler (parser.rs), the diagnostics engine (validator.rs) and the     *)
(* handle-based exports over the process-wide statics (wasm.rs).           *)
(*                                                                         *)
(* A Rust String is a sequence of characters.  ASCII characters stand for  *)
(* themselves; a non-ASCII character is written by its code point, e.g.    *)
(* "U+00E9" is LATIN SMALL LETTER E WITH ACUTE and "U+0301" is COMBINING   *)
(* ACUTE ACCENT.  Option<T> is [some |-> FALSE] or [some |-> TRUE, val].   *)
(***************************************************************************)
EXTENDS Integers, Sequences, FiniteSets, TLC

\* packs, default_locale: the fields of the AliasManager at hand (in wasm.rs,
\*   of the static ALIAS_MANAGER);
\* map_remove: which Mapping::remove the build links;
\* call: the last call that returned, with its arguments and result.
VARIABLES packs, default_locale, map_remove, call

\* wasm.rs: DOCUMENT_ARENA, NEXT_HANDLE and LAST_ERROR; the position and the
\* locals of each thread inside yc_parse; the handles taken from NEXT_HANDLE
\* so far, in the order they were taken; whether the NEXT_HANDLE mutex is
\* poisoned; whether the build checks integer overflow.
VARIABLES arena, next_handle, last_error, threads, returned, poisoned, overflow_checks

statics == <<arena, next_handle, last_error, threads, returned, poisoned, overflow_checks>>

vars == <<packs, default_locale, map_remove, call, statics>>

None == [some |-> FALSE]
Some(x) == [some |-> TRUE, val |-> x]

Threads == {1, 2}

\* A thread that is in no call.
IdleThread ==
  [pc |-> "idle", input |-> None, alias_manager |-> None, handle |-> 0, ycard |-> None]

\* The statics before any export was called, in a build without overflow
\* checks.
StaticsUntouched ==
  /\ arena = <<>>
  /\ next_handle = 1
  /\ last_error = None
  /\ threads = [t \in Threads |-> IdleThread]
  /\ returned = <<>>
  /\ poisoned = FALSE
  /\ overflow_checks = FALSE

Range(s) == {s[i] : i \in 1..Len(s)}

(***************************************************************************)
(* Bounds of the model.                                                    *)
(***************************************************************************)
MaxPacks == 2
MaxKeys == 2

(***************************************************************************)
(* Characters and strings.                                                 *)
(***************************************************************************)
UpperAscii == <<"A","B","C","D","E","F","G","H","I","J","K","L","M",
                "N","O","P","Q","R","S","T","U","V","W","X","Y","Z">>
LowerAscii == <<"a","b","c","d","e","f","g","h","i","j","k","l","m",
                "n","o","p","q","r","s","t","u","v","w","x","y","z">>

\* char::to_lowercase for the characters of the model.
UpperToLower ==
  [c \in Range(UpperAscii) |-> LowerAscii[CHOOSE i \in 1..26 : UpperAscii[i] = c]]
    @@ ("U+00C9" :> "U+00E9") @@ ("U+00D3" :> "U+00F3") @@ ("U+00C7" :> "U+00E7")

char_to_lowercase(c) == IF c \in DOMAIN UpperToLower THEN UpperToLower[c] ELSE c

\* str::to_lowercase
to_lowercase(s) == [i \in 1..Len(s) |-> char_to_lowercase(s[i])]

\* Canonical decomposition (NFD) of one character.
char_nfd(c) ==
  IF c = "U+00E9" THEN <<"e", "U+0301">>
  ELSE IF c = "U+00C9" THEN <<"E", "U+0301">>
  ELSE IF c = "U+00F3" THEN <<"o", "U+0301">>
  ELSE IF c = "U+00D3" THEN <<"O", "U+0301">>
  ELSE IF c = "U+00E7" THEN <<"c", "U+0327">>
  ELSE IF c = "U+00C7" THEN <<"C", "U+0327">>
  ELSE <<c>>

RECURSIVE nfd(_)
nfd(s) == IF s = <<>> THEN <<>> ELSE char_nfd(Head(s)) \o nfd(Tail(s))

\* The characters of the range 0x0300..=0x036F that the model uses.
CombiningDiacriticalMarks == {"U+0301", "U+0327"}

\* AliasManager::normalize_key: nfd, drop combining marks, lowercase.
normalize_key(key) ==
  to_lowercase(SelectSeq(nfd(key), LAMBDA c : c \notin CombiningDiacriticalMarks))

\* str::starts_with and str::strip_prefix
starts_with(s, p) == Len(p) <= Len(s) /\ SubSeq(s, 1, Len(p)) = p
strip_prefix(s, p) ==
  IF starts_with(s, p) THEN Some(SubSeq(s, Len(p) + 1, Len(s))) ELSE None

(***************************************************************************)
(* String constants.                                                       *)
(***************************************************************************)
S_root == <<"r","o","o","t">>
S_en == <<"e","n">>
S_fr == <<"f","r">>
S_frCA == <<"f","r","-","C","A">>
S_rootx == <<"r","o","o","t","-","x">>

S_version == <<"v","e","r","s","i","o","n">>
S_uid == <<"u","i","d">>
S_name == <<"n","a","m","e">>
S_phones == <<"p","h","o","n","e","s">>
S_emails == <<"e","m","a","i","l","s">>
S_addresses == <<"a","d","d","r","e","s","s","e","s">>
S_manager == <<"m","a","n","a","g","e","r">>
S_metadata == <<"m","e","t","a","d","a","t","a">>
S_phone == <<"p","h","o","n","e">>
S_email == <<"e","m","a","i","l">>
S_mobile == <<"m","o","b","i","l","e">>
S_home == <<"h","o","m","e">>
S_work == <<"w","o","r","k">>
S_other == <<"o","t","h","e","r">>
S_tel == <<"t","e","l">>
S_Tel == <<"T","U+00E9","l">>
S_TEL == <<"T","E","U+0301","L">>
S_portable == <<"p","o","r","t","a","b","l","e">>
S_handy == <<"h","a","n","d","y">>
S_phones_type == <<"p","h","o","n","e","s",".","t","y","p","e",":">>

(***************************************************************************)
(* i18n.rs: alias packs and the AliasManager.                              *)
(***************************************************************************)
LocaleData(ka, ta) == [key_aliases |-> ka, type_aliases |-> ta]
NoAliases == [k \in {} |-> <<>>]

\* data/aliases.fallback.json, the baked-in pack.
FallbackPack ==
  [version |-> "fallback",
   locales |-> (S_root :> LocaleData(
       (S_mobile :> (S_phones_type \o S_mobile))
         @@ (S_home :> (S_phones_type \o S_home))
         @@ (S_phone :> S_phones)
         @@ (S_email :> S_emails),
       NoAliases))]

\* AliasManager::new
AliasManager_new == [packs |-> <<FallbackPack>>, default_locale |-> S_en]

\* AliasManager::build_locale_chain
take_until_dash(s) ==
  IF \E i \in 1..Len(s) : s[i] = "-"
    THEN SubSeq(s, 1, (CHOOSE i \in 1..Len(s) :
                         s[i] = "-" /\ \A j \in 1..(i-1) : s[j] # "-") - 1)
    ELSE s

\* A slip: root pushed without the `locale != "root"` test.
build_locale_chain_always_root(locale) ==
  <<locale>>
    \o (IF take_until_dash(locale) # locale THEN <<take_until_dash(locale)>> ELSE <<>>)
    \o <<S_root>>

build_locale_chain(locale) ==
  <<locale>>
    \o (IF take_until_dash(locale) # locale THEN <<take_until_dash(locale)>> ELSE <<>>)
    \o (IF locale # S_root THEN <<S_root>> ELSE <<>>)

\* The inner loop of resolve_*_alias: the chain, in order, inside one pack.
RECURSIVE lookup_in_pack(_, _, _, _, _)
lookup_in_pack(pack, field, locales, k, j) ==
  IF j > Len(locales) THEN None
  ELSE IF locales[j] \in DOMAIN pack.locales
          /\ k \in DOMAIN pack.locales[locales[j]][field]
    THEN Some(pack.locales[locales[j]][field][k])
  ELSE lookup_in_pack(pack, field, locales, k, j + 1)

\* `if let Some(alias) = .. { return Some(alias) }`: the first hit is returned,
\* the search goes on after a miss.
or_else(found, rest) == IF found.some THEN found ELSE rest

\* The outer loop: self.packs.iter().rev(), from index i down to 1.
RECURSIVE lookup_rev(_, _, _, _, _)
lookup_rev(ps, field, locales, k, i) ==
  IF i = 0 THEN None
  ELSE or_else(lookup_in_pack(ps[i], field, locales, k, 1),
               lookup_rev(ps, field, locales, k, i - 1))

\* A slip: the packs walked oldest first.
RECURSIVE lookup_fwd(_, _, _, _, _)
lookup_fwd(ps, field, locales, k, i) ==
  IF i > Len(ps) THEN None
  ELSE or_else(lookup_in_pack(ps[i], field, locales, k, 1),
               lookup_fwd(ps, field, locales, k, i + 1))

unwrap_or(opt, d) == IF opt.some THEN opt.val ELSE d

resolve_key_alias_fwd(self, key, locale) ==
  lookup_fwd(self.packs, "key_aliases",
             build_locale_chain(unwrap_or(locale, self.default_locale)),
             normalize_key(key), 1)

resolve_key_alias_raw(self, key, locale) ==
  lookup_rev(self.packs, "key_aliases",
             build_locale_chain(unwrap_or(locale, self.default_locale)),
             key, Len(self.packs))

\* A slip: the constructor's default used where no locale is given.
resolve_key_alias_en(self, key, locale) ==
  lookup_rev(self.packs, "key_aliases",
             build_locale_chain(unwrap_or(locale, S_en)),
             normalize_key(key), Len(self.packs))

\* AliasManager::resolve_key_alias
resolve_key_alias(self, key, locale) ==
  lookup_rev(self.packs, "key_aliases",
             build_locale_chain(unwrap_or(locale, self.default_locale)),
             normalize_key(key), Len(self.packs))

\* AliasManager::resolve_type_alias
resolve_type_alias(self, type_name, locale) ==
  lookup_rev(self.packs, "type_aliases",
             build_locale_chain(unwrap_or(locale, self.default_locale)),
             normalize_key(type_name), Len(self.packs))

\* The alias manager of the current state.
manager == [packs |-> packs, default_locale |-> default_locale]

(***************************************************************************)
(* Inputs of the alias store: pack documents, locales and raw keys.        *)
(***************************************************************************)
\* Three chain locales of fr-CA, each with its own target for "tel".
PackA ==
  [version |-> "A",
   locales |-> (S_frCA :> LocaleData(S_tel :> S_phones, S_handy :> S_mobile))
            @@ (S_fr :> LocaleData((S_tel :> S_emails) @@ (S_portable :> (S_phones_type \o S_mobile)),
                                   S_handy :> S_home))
            @@ (S_root :> LocaleData(S_tel :> S_name, S_handy :> S_work))]

\* Only root.
PackB ==
  [version |-> "B",
   locales |-> (S_root :> LocaleData(S_tel :> S_uid, S_handy :> S_other))]

\* Alias keys that are not in normalized form.
PackC ==
  [version |-> "C",
   locales |-> (S_fr :> LocaleData(S_Tel :> S_manager, S_TEL :> S_metadata))]

LoadablePacks == {PackA, PackB, PackC}

Locales == {S_frCA, S_fr, S_root, S_en, S_rootx, <<>>}
LocaleArgs == {None} \cup {Some(l) : l \in Locales}
RawKeys == {S_tel, S_Tel, S_TEL, <<"T","E","L">>, S_handy, S_mobile, <<"x">>}

(***************************************************************************)
(* The alias store as a state machine.                                     *)
(***************************************************************************)
InitAlias ==
  /\ packs = AliasManager_new.packs
  /\ default_locale = AliasManager_new.default_locale
  /\ map_remove = "shift_remove"
  /\ call = [op |-> "new"]
  /\ StaticsUntouched

\* AliasManager::load_pack on a well-formed pack document.
load_pack(p) ==
  /\ Len(packs) <= MaxPacks
  /\ packs' = Append(packs, p)
  /\ call' = [op |-> "load_pack", ok |-> TRUE, pack |-> p, before |-> manager]
  /\ UNCHANGED <<default_locale, map_remove, statics>>

\* AliasManager::load_pack_bytes on a well-formed pack document.
load_pack_bytes(p) ==
  /\ Len(packs) <= MaxPacks
  /\ packs' = Append(packs, p)
  /\ call' = [op |-> "load_pack_bytes", ok |-> TRUE, pack |-> p, before |-> manager]
  /\ UNCHANGED <<default_locale, map_remove, statics>>

\* A slip: the pack pushed before its document is known to be well-formed,
\* so that a failing load leaves an empty pack behind.
load_pack_err_partial ==
  /\ Len(packs) <= MaxPacks
  /\ packs' = Append(packs, [version |-> "", locales |-> <<>>])
  /\ call' = [op |-> "load_pack", ok |-> FALSE, before |-> manager]
  /\ UNCHANGED <<default_locale, map_remove, statics>>

\* AliasManager::load_pack on malformed JSON: `?` returns before the push.
load_pack_err ==
  /\ call' = [op |-> "load_pack", ok |-> FALSE, before |-> manager]
  /\ UNCHANGED <<packs, default_locale, map_remove, statics>>

\* AliasManager::load_pack_bytes on malformed JSON.
load_pack_bytes_err ==
  /\ call' = [op |-> "load_pack_bytes", ok |-> FALSE, before |-> manager]
  /\ UNCHANGED <<packs, default_locale, map_remove, statics>>

\* A slip: the fallback pack not loaded again after the clear.
clear_packs_all ==
  /\ packs' = <<>>
  /\ call' = [op |-> "clear_packs", before |-> manager]
  /\ UNCHANGED <<default_locale, map_remove, statics>>

\* AliasManager::clear_packs
clear_packs ==
  /\ packs' = <<FallbackPack>>
  /\ call' = [op |-> "clear_packs", before |-> manager]
  /\ UNCHANGED <<default_locale, map_remove, statics>>

\* AliasManager::set_default_locale
set_default_locale(l) ==
  /\ default_locale' = l
  /\ call' = [op |-> "set_default_locale", locale |-> l, before |-> manager]
  /\ UNCHANGED <<packs, map_remove, statics>>

ResolveKey(key, locale) ==
  /\ call' = [op |-> "resolve_key", key |-> key, locale |-> locale,
              ret |-> resolve_key_alias(manager, key, locale)]
  /\ UNCHANGED <<packs, default_locale, map_remove, statics>>

ResolveType(key, locale) ==
  /\ call' = [op |-> "resolve_type", key |-> key, locale |-> locale,
              ret |-> resolve_type_alias(manager, key, locale)]
  /\ UNCHANGED <<packs, default_locale, map_remove, statics>>

BuildLocaleChain(l) ==
  /\ call' = [op |-> "build_locale_chain", locale |-> l,
              ret |-> build_locale_chain(l)]
  /\ UNCHANGED <<packs, default_locale, map_remove, statics>>

NextAlias ==
  \/ \E p \in LoadablePacks : load_pack(p)
  \/ load_pack_err
  \/ \E p \in LoadablePacks : load_pack_bytes(p)
  \/ load_pack_bytes_err
  \/ clear_packs
  \/ \E l \in {S_en, S_fr, S_frCA} : set_default_locale(l)
  \/ \E k \in RawKeys, l \in LocaleArgs : ResolveKey(k, l)
  \/ \E k \in RawKeys, l \in LocaleArgs : ResolveType(k, l)
  \/ \E l \in Locales : BuildLocaleChain(l)

SpecAlias == InitAlias /\ [][NextAlias]_vars

(***************************************************************************)
(* serde_yaml::Value and Result.                                           *)
(***************************************************************************)
VNull == [t |-> "Null"]
VBool(b) == [t |-> "Bool", v |-> b]
\* Value::Number of an integer (Number::PosInt, Number::NegInt).
VNumber(n) == [t |-> "Number", v |-> n]
\* Value::Number of a float (Number::Float), num/den: as_u64 is None for it.
VFloat(num, den) == [t |-> "Float", v |-> <<num, den>>]
VString(s) == [t |-> "String", v |-> s]
VSequence(items) == [t |-> "Sequence", v |-> items]
\* A Mapping is its entries [k, v] in iteration order; keys are distinct.
VMapping(entries) == [t |-> "Mapping", v |-> entries]
Entry(k, v) == [k |-> k, v |-> v]

as_str(value) == IF value.t = "String" THEN Some(value.v) ELSE None
as_bool(value) == IF value.t = "Bool" THEN Some(value.v) ELSE None
as_u64(value) == IF value.t = "Number" /\ value.v >= 0 THEN Some(value.v) ELSE None

Ok(x) == [ok |-> TRUE, val |-> x]
\* ParseError::Schema(msg), ParseError::Phone(.. number)
Err(kind, what) == [ok |-> FALSE, err |-> kind, what |-> what]

(***************************************************************************)
(* generated_types.rs: PhoneType and EmailType.                            *)
(***************************************************************************)
Kind(k) == [k |-> k]
Custom(s) == [k |-> "Custom", s |-> s]

S_casa == <<"c","a","s","a">>
S_domicile == <<"d","o","m","i","c","i","l","e">>
S_jitaku == <<"U+81EA","U+5B85">>
S_trabajo == <<"t","r","a","b","a","j","o">>
S_travail == <<"t","r","a","v","a","i","l">>
S_bureau == <<"b","u","r","e","a","u">>
S_kinmu == <<"U+52E4","U+52D9">>
S_cell == <<"c","e","l","l">>
S_movil == <<"m","U+00F3","v","i","l">>
S_keitai == <<"U+643A","U+5E2F">>
S_fax == <<"f","a","x">>
S_pager == <<"p","a","g","e","r">>
S_main == <<"m","a","i","n">>
S_principal == <<"p","r","i","n","c","i","p","a","l">>
S_otro == <<"o","t","r","o">>
S_autre == <<"a","u","t","r","e">>
S_sonota == <<"U+305D","U+306E","U+4ED6">>

\* PhoneType::from_str_with_locale; the locale argument is unused.
PhoneType_from_str_with_locale(s, locale) ==
  LET l == to_lowercase(s)
  IN  IF l \in {S_home, S_casa, S_domicile, S_jitaku} THEN Kind("Home")
      ELSE IF l \in {S_work, S_trabajo, S_travail, S_bureau, S_kinmu} THEN Kind("Work")
      ELSE IF l \in {S_mobile, S_cell, S_movil, S_portable, S_keitai} THEN Kind("Mobile")
      ELSE IF l = S_fax THEN Kind("Fax")
      ELSE IF l = S_pager THEN Kind("Pager")
      ELSE IF l \in {S_main, S_principal} THEN Kind("Main")
      ELSE IF l \in {S_other, S_otro, S_autre, S_sonota} THEN Kind("Other")
      ELSE Custom(s)

\* EmailType::from_str_with_locale
EmailType_from_str_with_locale(s, locale) ==
  LET l == to_lowercase(s)
  IN  IF l \in {S_home, S_casa, S_domicile, S_jitaku} THEN Kind("Home")
      ELSE IF l \in {S_work, S_trabajo, S_travail, S_bureau, S_kinmu} THEN Kind("Work")
      ELSE IF l \in {S_other, S_otro, S_autre, S_sonota} THEN Kind("Other")
      ELSE Custom(s)

(***************************************************************************)
(* parser.rs: phone numbers and phone records.                             *)
(***************************************************************************)
AsciiDigits == {"0","1","2","3","4","5","6","7","8","9"}
\* char::is_numeric: the ASCII digits and, outside ASCII, e.g. U+0663
\* ARABIC-INDIC DIGIT THREE.
is_numeric(c) == c \in AsciiDigits \cup {"U+0663"}
Whitespace == {" "}

\* The UTF-8 width of a character; String::len counts bytes.
utf8_len(c) ==
  IF c \in {"U+00E9","U+00C9","U+00F3","U+00D3","U+00E7","U+00C7",
            "U+0301","U+0327","U+0663"} THEN 2
  ELSE IF c \in {"U+81EA","U+5B85","U+52E4","U+52D9","U+643A","U+5E2F",
                 "U+305D","U+306E","U+4ED6"} THEN 3
  ELSE 1

RECURSIVE str_len(_)
str_len(s) == IF s = <<>> THEN 0 ELSE utf8_len(Head(s)) + str_len(Tail(s))

\* The least number of bytes of digits that gets the +1 prefix.
MinNationalLen == 10

\* A slip: the number returned as written where it has a '+'.
normalized_digits_as_written(digits_only, number) ==
  IF starts_with(digits_only, <<"+">>) THEN Ok(number)
  ELSE IF str_len(digits_only) >= MinNationalLen THEN Ok(<<"+","1">> \o digits_only)
  ELSE Err("Phone", number)

\* The branches of normalize_phone_number on the filtered string.
normalized_digits(digits_only, number) ==
  IF starts_with(digits_only, <<"+">>) THEN Ok(digits_only)
  ELSE IF str_len(digits_only) >= MinNationalLen THEN Ok(<<"+","1">> \o digits_only)
  ELSE Err("Phone", number)

\* Parser::normalize_phone_number
normalize_phone_number(number) ==
  normalized_digits(SelectSeq(number, LAMBDA c : is_numeric(c) \/ c = "+"), number)

\* str::trim, str::trim_start_matches
RECURSIVE trim_start(_)
trim_start(s) ==
  IF s # <<>> /\ Head(s) \in Whitespace THEN trim_start(Tail(s)) ELSE s
RECURSIVE trim_end(_)
trim_end(s) ==
  IF s # <<>> /\ s[Len(s)] \in Whitespace THEN trim_end(SubSeq(s, 1, Len(s) - 1)) ELSE s
trim(s) == trim_end(trim_start(s))
RECURSIVE trim_start_matches(_, _)
trim_start_matches(s, p) ==
  IF starts_with(s, p) THEN trim_start_matches(SubSeq(s, Len(p) + 1, Len(s)), p) ELSE s

\* str::find: the index of the first occurrence of p in s.
find(s, p) ==
  LET at == {i \in 1..(Len(s) - Len(p) + 1) : SubSeq(s, i, i + Len(p) - 1) = p}
  IN  IF at = {} THEN None ELSE Some(CHOOSE i \in at : \A j \in at : i <= j)

S_ext == <<"e","x","t">>

Phone(number, type, ext) ==
  [number |-> number, type |-> type, ext |-> ext, preferred |-> None, label |-> None]

\* `self.normalize_phone_number(number)?` followed by Ok(Phone { .. }).
phone_of_number(normalized, default_types, ext) ==
  IF normalized.ok THEN Ok(Phone(normalized.val, default_types, ext)) ELSE normalized

\* parse_phone_string once s.find("ext") is known.
parse_phone_string_at(s, ext_pos, default_types) ==
  IF ext_pos.some
    THEN phone_of_number(
           normalize_phone_number(trim(SubSeq(s, 1, ext_pos.val - 1))),
           default_types,
           Some(trim(trim_start_matches(
                  trim_start_matches(SubSeq(s, ext_pos.val, Len(s)), S_ext), <<".">>))))
    ELSE phone_of_number(normalize_phone_number(trim(s)), default_types, None)

\* Parser::parse_phone_string
parse_phone_string(s, default_types, locale) ==
  parse_phone_string_at(s, find(s, S_ext), default_types)

\* The strings of a sequence value: seq.iter().filter_map(|v| v.as_str())
string_values(strings) == [i \in 1..Len(strings) |-> strings[i].v]
strs_of(seq) == string_values(SelectSeq(seq, LAMBDA v : v.t = "String"))

\* .map(|s| PhoneType::from_str_with_locale(s, ..)).collect()
phone_types_of(strs, locale) ==
  [i \in 1..Len(strs) |-> PhoneType_from_str_with_locale(strs[i], locale)]

\* Parser::parse_phone_types
parse_phone_types(value, locale) ==
  IF value.t = "String"
    THEN Ok(<<PhoneType_from_str_with_locale(value.v, unwrap_or(locale, S_en))>>)
  ELSE IF value.t = "Sequence"
    THEN Ok(phone_types_of(strs_of(value.v), unwrap_or(locale, S_en)))
  ELSE Ok(<<Kind("Other")>>)

S_number == <<"n","u","m","b","e","r">>
S_type == <<"t","y","p","e">>
S_preferred == <<"p","r","e","f","e","r","r","e","d">>
S_label == <<"l","a","b","e","l">>

\* phone.number = self.normalize_phone_number(num)?
with_number(phone, normalized) ==
  IF normalized.ok THEN Ok([phone EXCEPT !.number = normalized.val]) ELSE normalized

\* The match of parse_phone_object on one entry of the mapping.
phone_with_entry(phone, key, val, locale) ==
  IF key.t # "String" THEN Ok(phone)
  ELSE IF key.v = S_number THEN
    IF val.t = "String" THEN with_number(phone, normalize_phone_number(val.v))
                        ELSE Ok(phone)
  ELSE IF key.v = S_type
    THEN Ok([phone EXCEPT !.type = parse_phone_types(val, locale).val])
  ELSE IF key.v = S_ext THEN Ok([phone EXCEPT !.ext = as_str(val)])
  ELSE IF key.v = S_preferred THEN Ok([phone EXCEPT !.preferred = as_bool(val)])
  ELSE IF key.v = S_label THEN Ok([phone EXCEPT !.label = as_str(val)])
  ELSE Ok(phone)

\* The loop of parse_phone_object over the entries from index i; `?` ends it.
RECURSIVE parse_phone_object_from(_, _, _, _)
RECURSIVE parse_phone_object_next(_, _, _, _)
parse_phone_object_from(entries, i, phone, locale) ==
  IF i > Len(entries) THEN Ok(phone)
  ELSE parse_phone_object_next(
         phone_with_entry(phone, entries[i].k, entries[i].v, locale), entries, i, locale)

parse_phone_object_next(r, entries, i, locale) ==
  IF r.ok THEN parse_phone_object_from(entries, i + 1, r.val, locale) ELSE r

\* Parser::parse_phone_object
parse_phone_object(value, locale) ==
  IF value.t = "Mapping"
    THEN parse_phone_object_from(value.v, 1, Phone(<<>>, <<Kind("Other")>>, None), locale)
    ELSE Err("Schema", "Invalid phone object")

\* Result<Phone> to Result<Vec<Phone>>: Ok(vec![x?])
vec_of(r) == IF r.ok THEN Ok(<<r.val>>) ELSE r

\* The match on one item of a sequence in extract_phones and value_to_phones:
\* a string gets default_types, a mapping is a phone object, the rest is
\* skipped.
phones_of_item(item, default_types, locale) ==
  IF item.t = "String" THEN vec_of(parse_phone_string(item.v, default_types, locale))
  ELSE IF item.t = "Mapping" THEN vec_of(parse_phone_object(item, locale))
  ELSE Ok(<<>>)

\* The loop over the sequence from index i; `?` ends it.
RECURSIVE phones_of_seq(_, _, _, _, _)
RECURSIVE phones_of_seq_next(_, _, _, _, _, _)
phones_of_seq(seq, i, phones, default_types, locale) ==
  IF i > Len(seq) THEN Ok(phones)
  ELSE phones_of_seq_next(phones_of_item(seq[i], default_types, locale),
                          seq, i, phones, default_types, locale)

phones_of_seq_next(r, seq, i, phones, default_types, locale) ==
  IF r.ok THEN phones_of_seq(seq, i + 1, phones \o r.val, default_types, locale) ELSE r

\* extract_phones with the fallback arm of extract_emails.
extract_phones_other_empty(value, locale) ==
  IF value.t = "String"
    THEN vec_of(parse_phone_string(value.v, <<Kind("Other")>>, locale))
  ELSE IF value.t = "Sequence"
    THEN phones_of_seq(value.v, 1, <<>>, <<Kind("Other")>>, locale)
  ELSE IF value.t = "Mapping" THEN vec_of(parse_phone_object(value, locale))
  ELSE Ok(<<>>)

\* Parser::extract_phones
extract_phones(value, locale) ==
  IF value.t = "String"
    THEN vec_of(parse_phone_string(value.v, <<Kind("Other")>>, locale))
  ELSE IF value.t = "Sequence"
    THEN phones_of_seq(value.v, 1, <<>>, <<Kind("Other")>>, locale)
  ELSE IF value.t = "Mapping" THEN vec_of(parse_phone_object(value, locale))
  ELSE Err("Schema", "Invalid phones format")

\* Parser::value_to_phones
value_to_phones(value, default_types, locale) ==
  IF value.t = "String"
    THEN vec_of(parse_phone_string(value.v, default_types, locale))
  ELSE IF value.t = "Sequence"
    THEN phones_of_seq(value.v, 1, <<>>, default_types, locale)
  ELSE vec_of(parse_phone_string(unwrap_or(as_str(value), <<>>), default_types, locale))

(***************************************************************************)
(* parser.rs: names, emails, addresses, metadata.                          *)
(***************************************************************************)
S_givenName == <<"n","a","m","e",".","g","i","v","e","n","N","a","m","e">>
S_familyName == <<"n","a","m","e",".","f","a","m","i","l","y","N","a","m","e">>
S_displayName == <<"n","a","m","e",".","d","i","s","p","l","a","y","N","a","m","e">>
S_address == <<"a","d","d","r","e","s","s">>
S_locale == <<"l","o","c","a","l","e">>
S_source == <<"s","o","u","r","c","e">>

\* Parser::normalize_field_key
normalize_field_key(self, key, locale) ==
  unwrap_or(resolve_key_alias(self, key, locale), key)

EmptyName ==
  [display_name |-> None, given_name |-> None, family_name |-> None,
   middle_name |-> None, honorific_prefix |-> None, honorific_suffix |-> None,
   script |-> None]

\* Parser::value_to_string_vec
value_to_string_vec(value) ==
  IF value.t = "String" THEN <<value.v>>
  ELSE IF value.t = "Sequence" THEN strs_of(value.v)
  ELSE <<>>

\* The match of extract_name on one normalized key.
name_with_entry(name, nk, val) ==
  IF nk = S_givenName THEN [name EXCEPT !.given_name = Some(value_to_string_vec(val))]
  ELSE IF nk = S_familyName
    THEN [name EXCEPT !.family_name = Some(value_to_string_vec(val))]
  ELSE IF nk = S_displayName THEN [name EXCEPT !.display_name = as_str(val)]
  ELSE name

\* The loop of extract_name over the entries of a mapping.
RECURSIVE extract_name_from(_, _, _, _, _)
extract_name_from(self, entries, i, name, locale) ==
  IF i > Len(entries) THEN Ok(name)
  ELSE IF entries[i].k.t # "String"
    THEN extract_name_from(self, entries, i + 1, name, locale)
  ELSE extract_name_from(self, entries, i + 1,
         name_with_entry(name, normalize_field_key(self, entries[i].k.v, locale),
                         entries[i].v),
         locale)

\* Parser::extract_name
extract_name(self, value, locale) ==
  IF value.t = "String" THEN Ok([EmptyName EXCEPT !.display_name = Some(value.v)])
  ELSE IF value.t = "Mapping" THEN extract_name_from(self, value.v, 1, EmptyName, locale)
  ELSE Err("Schema", "Invalid name format")

Email(address, type) == [address |-> address, type |-> type, preferred |-> None]

\* .map(|s| EmailType::from_str_with_locale(s, ..)).collect()
email_types_of(strs, locale) ==
  [i \in 1..Len(strs) |-> EmailType_from_str_with_locale(strs[i], locale)]

\* Parser::parse_email_types
parse_email_types(value, locale) ==
  IF value.t = "String"
    THEN Ok(<<EmailType_from_str_with_locale(value.v, unwrap_or(locale, S_en))>>)
  ELSE IF value.t = "Sequence"
    THEN Ok(email_types_of(strs_of(value.v), unwrap_or(locale, S_en)))
  ELSE Ok(<<Kind("Other")>>)

\* The loop of parse_email_object over the entries from index i.
RECURSIVE parse_email_object_from(_, _, _, _)
parse_email_object_from(entries, i, email, locale) ==
  IF i > Len(entries) THEN Ok(email)
  ELSE LET key == entries[i].k
           val == entries[i].v
           next(e) == parse_email_object_from(entries, i + 1, e, locale)
       IN  IF key.t # "String" THEN next(email)
           ELSE IF key.v = S_address
             THEN next([email EXCEPT !.address = unwrap_or(as_str(val), <<>>)])
           ELSE IF key.v = S_type
             THEN next([email EXCEPT !.type = parse_email_types(val, locale).val])
           ELSE IF key.v = S_preferred THEN next([email EXCEPT !.preferred = as_bool(val)])
           ELSE next(email)

\* Parser::parse_email_object
parse_email_object(value, locale) ==
  IF value.t = "Mapping"
    THEN parse_email_object_from(value.v, 1, Email(<<>>, <<Kind("Other")>>), locale)
    ELSE Err("Schema", "Invalid email object")

\* The match of extract_emails on one item of the sequence: a string is an
\* address, a mapping is an email object, the rest is skipped.
emails_of_item(item, locale) ==
  IF item.t = "String" THEN Ok(<<Email(item.v, <<Kind("Other")>>)>>)
  ELSE IF item.t = "Mapping" THEN vec_of(parse_email_object(item, locale))
  ELSE Ok(<<>>)

\* The loop of extract_emails over a sequence; `?` ends it.
RECURSIVE emails_of_seq(_, _, _, _)
RECURSIVE emails_of_seq_next(_, _, _, _, _)
emails_of_seq(seq, i, emails, locale) ==
  IF i > Len(seq) THEN Ok(emails)
  ELSE emails_of_seq_next(emails_of_item(seq[i], locale), seq, i, emails, locale)

emails_of_seq_next(r, seq, i, emails, locale) ==
  IF r.ok THEN emails_of_seq(seq, i + 1, emails \o r.val, locale) ELSE r

\* Parser::extract_emails
extract_emails(value, locale) ==
  IF value.t = "String" THEN Ok(<<Email(value.v, <<Kind("Other")>>)>>)
  ELSE IF value.t = "Sequence" THEN emails_of_seq(value.v, 1, <<>>, locale)
  ELSE Ok(<<>>)

\* Parser::extract_addresses
extract_addresses(value, locale) == Ok(<<>>)

\* The loop of extract_metadata over the entries from index i.
RECURSIVE extract_metadata_from(_, _, _)
extract_metadata_from(entries, i, metadata) ==
  IF i > Len(entries) THEN Ok(metadata)
  ELSE LET key == entries[i].k
           val == entries[i].v
           next(m) == extract_metadata_from(entries, i + 1, m)
       IN  IF key.t # "String" THEN next(metadata)
           ELSE IF key.v = S_locale THEN next([metadata EXCEPT !.locale = as_str(val)])
           ELSE IF key.v = S_source THEN next([metadata EXCEPT !.source = as_str(val)])
           ELSE next(metadata)

\* Parser::extract_metadata
extract_metadata(value) ==
  IF value.t = "Mapping"
    THEN extract_metadata_from(value.v, 1, [locale |-> None, source |-> None])
    ELSE Err("Schema", "Invalid metadata format")

(***************************************************************************)
(* parser.rs: the document assembler.                                      *)
(***************************************************************************)
\* YCard::default
YCard_default ==
  [version |-> 1, uid |-> None, name |-> None, phones |-> None, emails |-> None,
   addresses |-> None, manager |-> None, metadata |-> None]

\* Mapping::remove.  serde_yaml 0.8 keeps the order of the other entries;
\* serde_yaml 0.9 moves the last entry into the hole.  remove_mode says
\* which one the build links.
index_of(entries, key) == CHOOSE i \in 1..Len(entries) : entries[i].k = key

mapping_remove(entries, key, remove_mode) ==
  LET i == index_of(entries, key)
      n == Len(entries)
  IN  IF remove_mode = "shift_remove"
        THEN SelectSeq(entries, LAMBDA e : e.k # key)
      ELSE IF i = n THEN SubSeq(entries, 1, n - 1)
      ELSE SubSeq([entries EXCEPT ![i] = entries[n]], 1, n - 1)

\* The keys extract_shorthand_phones collects: string keys that resolve to
\* "phones.type:<TAG>", in the order of the mapping.
is_shorthand(self, key, locale) ==
  /\ key.t = "String"
  /\ starts_with(normalize_field_key(self, key.v, locale), S_phones_type)

keys_to_remove(self, entries, locale) ==
  LET es == SelectSeq(entries, LAMBDA e : is_shorthand(self, e.k, locale))
  IN  [i \in 1..Len(es) |-> es[i].k]

\* The phone type of a shorthand key: the rest of its normalized key after
\* "phones.type:".
shorthand_type(self, key, locale) ==
  PhoneType_from_str_with_locale(
    strip_prefix(normalize_field_key(self, key.v, locale), S_phones_type).val,
    unwrap_or(locale, S_en))

\* The second loop of extract_shorthand_phones, from the i-th collected key.
RECURSIVE shorthand_from(_, _, _, _, _, _, _)
RECURSIVE shorthand_next(_, _, _, _, _, _, _, _)
shorthand_from(self, keys, i, entries, shorthand_phones, locale, remove_mode) ==
  IF i > Len(keys) THEN Ok([map |-> entries, phones |-> shorthand_phones])
  ELSE shorthand_next(
         value_to_phones(entries[index_of(entries, keys[i])].v,
                         <<shorthand_type(self, keys[i], locale)>>, locale),
         self, keys, i, entries, shorthand_phones, locale, remove_mode)

\* A slip: a shorthand value that cannot be coerced is dropped with its key
\* (`if let Ok(..)` for `?`).
shorthand_next_skip(phones, self, keys, i, entries, shorthand_phones, locale, remove_mode) ==
  shorthand_from(self, keys, i + 1, mapping_remove(entries, keys[i], remove_mode),
                 IF phones.ok THEN shorthand_phones \o phones.val ELSE shorthand_phones,
                 locale, remove_mode)

\* `self.value_to_phones(&value, ..)?`, then the key is removed and the
\* phones are kept.
shorthand_next(phones, self, keys, i, entries, shorthand_phones, locale, remove_mode) ==
  IF phones.ok
    THEN shorthand_from(self, keys, i + 1, mapping_remove(entries, keys[i], remove_mode),
                        shorthand_phones \o phones.val, locale, remove_mode)
    ELSE phones

\* `if !shorthand_phones.is_empty() { ycard.phones = Some(shorthand_phones) }`
with_shorthand_phones(r, ycard) ==
  IF ~r.ok THEN r
  ELSE Ok([map |-> r.val.map,
           ycard |-> IF r.val.phones # <<>>
                       THEN [ycard EXCEPT !.phones = Some(r.val.phones)]
                       ELSE ycard])

\* Parser::extract_shorthand_phones: the mapping without the shorthand keys
\* and the document with the shorthand phones.
extract_shorthand_phones(self, entries, ycard, locale, remove_mode) ==
  with_shorthand_phones(
    shorthand_from(self, keys_to_remove(self, entries, locale), 1, entries,
                   <<>>, locale, remove_mode),
    ycard)

\* A slip: the explicit list appended to the shorthand phones.
set_phones_merge(ycard, phones) ==
  [ycard EXCEPT !.phones = Some(IF ycard.phones.some THEN ycard.phones.val \o phones
                                                       ELSE phones)]

\* ycard.phones = Some(..) of the "phones" arm.
set_phones(ycard, phones) == [ycard EXCEPT !.phones = Some(phones)]

\* A slip: an email list already taken is kept.
with_emails_keep_first(ycard, r) ==
  IF r.ok THEN Ok(IF ycard.emails.some THEN ycard ELSE [ycard EXCEPT !.emails = Some(r.val)])
  ELSE r

\* `ycard.<field> = Some(self.extract_<field>(..)?)` of an arm.
with_name(ycard, r) == IF r.ok THEN Ok([ycard EXCEPT !.name = Some(r.val)]) ELSE r
with_phones(ycard, r) == IF r.ok THEN Ok(set_phones(ycard, r.val)) ELSE r
with_emails(ycard, r) == IF r.ok THEN Ok([ycard EXCEPT !.emails = Some(r.val)]) ELSE r
with_addresses(ycard, r) ==
  IF r.ok THEN Ok([ycard EXCEPT !.addresses = Some(r.val)]) ELSE r
with_metadata(ycard, r) ==
  IF r.ok THEN Ok([ycard EXCEPT !.metadata = Some(r.val)]) ELSE r

\* One arm of the match on the normalized key: the document after the field,
\* or the error of its coercion.
set_field(self, ycard, nk, val, locale) ==
  IF nk = S_version
    THEN Ok(IF as_u64(val).some THEN [ycard EXCEPT !.version = val.v % 256] ELSE ycard)
  ELSE IF nk = S_uid
    THEN Ok(IF val.t = "String" THEN [ycard EXCEPT !.uid = Some(val.v)] ELSE ycard)
  ELSE IF nk = S_name THEN with_name(ycard, extract_name(self, val, locale))
  ELSE IF nk = S_phones THEN with_phones(ycard, extract_phones(val, locale))
  ELSE IF nk = S_emails THEN with_emails(ycard, extract_emails(val, locale))
  ELSE IF nk = S_addresses THEN with_addresses(ycard, extract_addresses(val, locale))
  ELSE IF nk = S_manager
    THEN Ok(IF val.t = "String" THEN [ycard EXCEPT !.manager = Some(val.v)] ELSE ycard)
  ELSE IF nk = S_metadata THEN with_metadata(ycard, extract_metadata(val))
  ELSE Ok(ycard)

\* The loop of value_to_ycard over the remaining entries, from index i.
RECURSIVE fields_from(_, _, _, _, _)
RECURSIVE fields_next(_, _, _, _, _)
fields_from(self, entries, i, ycard, locale) ==
  IF i > Len(entries) THEN Ok(ycard)
  ELSE IF entries[i].k.t # "String" THEN fields_from(self, entries, i + 1, ycard, locale)
  ELSE fields_next(
         set_field(self, ycard, normalize_field_key(self, entries[i].k.v, locale),
                   entries[i].v, locale),
         self, entries, i, locale)

fields_next(r, self, entries, i, locale) ==
  IF r.ok THEN fields_from(self, entries, i + 1, r.val, locale) ELSE r

\* `let ycard = self.extract_shorthand_phones(map, ycard, locale)?` and the
\* loop over what is left of the mapping.
fields_after_shorthand(s, self, locale) ==
  IF s.ok THEN fields_from(self, s.val.map, 1, s.val.ycard, locale) ELSE s

\* Parser::value_to_ycard
value_to_ycard(self, value, locale, remove_mode) ==
  IF value.t = "Mapping"
    THEN fields_after_shorthand(
           extract_shorthand_phones(self, value.v, YCard_default, locale, remove_mode),
           self, locale)
    ELSE Ok(YCard_default)

(***************************************************************************)
(* parser.rs: parse_strict.  serde_yaml::from_str::<YCard> runs the         *)
(* Deserialize that schema.rs derives: a struct is read from a mapping, a   *)
(* key that names no field is skipped (no deny_unknown_fields), a field of  *)
(* an Option type may be missing or null, any other field must be there,    *)
(* and a value of the wrong shape is an error.                              *)
(***************************************************************************)
\* ParseError::Yaml(serde_yaml::Error)
YamlErr == Err("Yaml", "serde_yaml::Error")

has_field(entries, name) == \E i \in 1..Len(entries) : entries[i].k = VString(name)
get_field(entries, name) ==
  entries[CHOOSE i \in 1..Len(entries) : entries[i].k = VString(name)].v

\* Vec<T>: the items when every item is read, else the error.
collect(results) ==
  IF \A i \in 1..Len(results) : results[i].ok
    THEN Ok([i \in 1..Len(results) |-> results[i].val])
    ELSE YamlErr

\* u8
deserialize_u8(value) ==
  IF value.t = "Number" /\ value.v \in 0..255 THEN Ok(value.v) ELSE YamlErr

\* String, read from a string scalar.
deserialize_String(value) == IF value.t = "String" THEN Ok(value.v) ELSE YamlErr

\* Option<String> and Option<bool> fields: t is "String" or "Bool".
deserialize_Option(entries, name, t) ==
  IF ~has_field(entries, name) \/ get_field(entries, name).t = "Null" THEN Ok(None)
  ELSE IF get_field(entries, name).t = t THEN Ok(Some(get_field(entries, name).v))
  ELSE YamlErr

\* Vec<String>
deserialize_Strings(value) ==
  IF value.t = "Sequence"
    THEN collect([i \in 1..Len(value.v) |-> deserialize_String(value.v[i])])
    ELSE YamlErr

Some_of(r) == IF r.ok THEN Ok(Some(r.val)) ELSE r

\* Option<Vec<String>> fields of Name.
deserialize_Option_Strings(entries, name) ==
  IF ~has_field(entries, name) \/ get_field(entries, name).t = "Null" THEN Ok(None)
  ELSE Some_of(deserialize_Strings(get_field(entries, name)))

\* schema.rs PhoneType, EmailType and AddressType: the lowercase name of a
\* variant, any other string is Custom.
SchemaKinds(names, s) ==
  IF s \in DOMAIN names THEN Kind(names[s]) ELSE Custom(s)
PhoneTypeNames ==
  (S_home :> "Home") @@ (S_work :> "Work") @@ (S_mobile :> "Mobile") @@ (S_fax :> "Fax")
    @@ (S_pager :> "Pager") @@ (S_main :> "Main") @@ (S_other :> "Other")
EmailTypeNames == (S_home :> "Home") @@ (S_work :> "Work") @@ (S_other :> "Other")
AddressTypeNames == (S_home :> "Home") @@ (S_work :> "Work") @@ (S_other :> "Other")

types_of_strings(names, r) ==
  IF r.ok THEN Ok([i \in 1..Len(r.val) |-> SchemaKinds(names, r.val[i])]) ELSE r

\* Vec<PhoneType>, Vec<EmailType>, Vec<AddressType>
deserialize_types(names, value) == types_of_strings(names, deserialize_Strings(value))

\* A required field: a missing one is read as null, which no type of a
\* required field accepts.
required(entries, name) == IF has_field(entries, name) THEN get_field(entries, name) ELSE VNull

phone_of_fields(number, type, ext, preferred, label) ==
  IF number.ok /\ type.ok /\ ext.ok /\ preferred.ok /\ label.ok
    THEN Ok([number |-> number.val, type |-> type.val, ext |-> ext.val,
             preferred |-> preferred.val, label |-> label.val])
    ELSE YamlErr

\* Phone
deserialize_Phone(value) ==
  IF value.t # "Mapping" THEN YamlErr
  ELSE phone_of_fields(deserialize_String(required(value.v, S_number)),
                       deserialize_types(PhoneTypeNames, required(value.v, S_type)),
                       deserialize_Option(value.v, S_ext, "String"),
                       deserialize_Option(value.v, S_preferred, "Bool"),
                       deserialize_Option(value.v, S_label, "String"))

email_of_fields(address, type, preferred) ==
  IF address.ok /\ type.ok /\ preferred.ok
    THEN Ok([address |-> address.val, type |-> type.val, preferred |-> preferred.val])
    ELSE YamlErr

\* Email
deserialize_Email(value) ==
  IF value.t # "Mapping" THEN YamlErr
  ELSE email_of_fields(deserialize_String(required(value.v, S_address)),
                       deserialize_types(EmailTypeNames, required(value.v, S_type)),
                       deserialize_Option(value.v, S_preferred, "Bool"))

\* The serde names of the fields of Name, Address and AddressComponents.
F_givenName == <<"g","i","v","e","n","N","a","m","e">>
F_middleName == <<"m","i","d","d","l","e","N","a","m","e">>
F_familyName == <<"f","a","m","i","l","y","N","a","m","e">>
F_honorificPrefix == <<"h","o","n","o","r","i","f","i","c","P","r","e","f","i","x">>
F_honorificSuffix == <<"h","o","n","o","r","i","f","i","c","S","u","f","f","i","x">>
F_displayName == <<"d","i","s","p","l","a","y","N","a","m","e">>
F_script == <<"s","c","r","i","p","t">>
F_formatted == <<"f","o","r","m","a","t","t","e","d">>
F_components == <<"c","o","m","p","o","n","e","n","t","s">>
F_street == <<"s","t","r","e","e","t">>
F_locality == <<"l","o","c","a","l","i","t","y">>
F_region == <<"r","e","g","i","o","n">>
F_postalCode == <<"p","o","s","t","a","l","C","o","d","e">>
F_country == <<"c","o","u","n","t","r","y">>

name_of_fields(given, middle, family, prefix, suffix, display, script) ==
  IF given.ok /\ middle.ok /\ family.ok /\ prefix.ok /\ suffix.ok /\ display.ok /\ script.ok
    THEN Ok([display_name |-> display.val, given_name |-> given.val,
             family_name |-> family.val, middle_name |-> middle.val,
             honorific_prefix |-> prefix.val, honorific_suffix |-> suffix.val,
             script |-> script.val])
    ELSE YamlErr

\* Name
deserialize_Name(value) ==
  IF value.t # "Mapping" THEN YamlErr
  ELSE name_of_fields(deserialize_Option_Strings(value.v, F_givenName),
                      deserialize_Option_Strings(value.v, F_middleName),
                      deserialize_Option_Strings(value.v, F_familyName),
                      deserialize_Option_Strings(value.v, F_honorificPrefix),
                      deserialize_Option_Strings(value.v, F_honorificSuffix),
                      deserialize_Option(value.v, F_displayName, "String"),
                      deserialize_Option(value.v, F_script, "String"))

components_of_fields(street, locality, region, postal_code, country) ==
  IF street.ok /\ locality.ok /\ region.ok /\ postal_code.ok /\ country.ok
    THEN Ok([street |-> street.val, locality |-> locality.val, region |-> region.val,
             postal_code |-> postal_code.val, country |-> country.val])
    ELSE YamlErr

\* AddressComponents
deserialize_AddressComponents(value) ==
  IF value.t # "Mapping" THEN YamlErr
  ELSE components_of_fields(deserialize_Option(value.v, F_street, "String"),
                            deserialize_Option(value.v, F_locality, "String"),
                            deserialize_Option(value.v, F_region, "String"),
                            deserialize_Option(value.v, F_postalCode, "String"),
                            deserialize_Option(value.v, F_country, "String"))

\* Option<AddressComponents>
deserialize_Option_Components(entries) ==
  IF ~has_field(entries, F_components) \/ get_field(entries, F_components).t = "Null"
    THEN Ok(None)
    ELSE Some_of(deserialize_AddressComponents(get_field(entries, F_components)))

address_of_fields(type, formatted, components) ==
  IF type.ok /\ formatted.ok /\ components.ok
    THEN Ok([type |-> type.val, formatted |-> formatted.val,
             components |-> components.val])
    ELSE YamlErr

\* Address
deserialize_Address(value) ==
  IF value.t # "Mapping" THEN YamlErr
  ELSE address_of_fields(deserialize_types(AddressTypeNames, required(value.v, S_type)),
                         deserialize_Option(value.v, F_formatted, "String"),
                         deserialize_Option_Components(value.v))

metadata_of_fields(locale, source) ==
  IF locale.ok /\ source.ok THEN Ok([locale |-> locale.val, source |-> source.val])
                            ELSE YamlErr

\* Metadata
deserialize_Metadata(value) ==
  IF value.t # "Mapping" THEN YamlErr
  ELSE metadata_of_fields(deserialize_Option(value.v, S_locale, "String"),
                          deserialize_Option(value.v, S_source, "String"))

\* A name, phones, emails, addresses or metadata value of YCard, read by the
\* deserializer of the field's type.
deserialize_field(name, value) ==
  IF name = S_name THEN deserialize_Name(value)
  ELSE IF name = S_phones THEN
    IF value.t = "Sequence"
      THEN collect([i \in 1..Len(value.v) |-> deserialize_Phone(value.v[i])])
      ELSE YamlErr
  ELSE IF name = S_emails THEN
    IF value.t = "Sequence"
      THEN collect([i \in 1..Len(value.v) |-> deserialize_Email(value.v[i])])
      ELSE YamlErr
  ELSE IF name = S_addresses THEN
    IF value.t = "Sequence"
      THEN collect([i \in 1..Len(value.v) |-> deserialize_Address(value.v[i])])
      ELSE YamlErr
  ELSE deserialize_Metadata(value)

\* An Option field of YCard: None when missing or null.
deserialize_Option_field(entries, name) ==
  IF ~has_field(entries, name) \/ get_field(entries, name).t = "Null" THEN Ok(None)
  ELSE Some_of(deserialize_field(name, get_field(entries, name)))

ycard_of_fields(version, uid, name, phones, emails, addresses, metadata) ==
  IF /\ version.ok /\ uid.ok /\ name.ok /\ phones.ok /\ emails.ok
     /\ addresses.ok /\ metadata.ok
    THEN Ok([YCard_default EXCEPT
               !.version = version.val, !.uid = uid.val, !.name = name.val,
               !.phones = phones.val, !.emails = emails.val,
               !.addresses = addresses.val, !.metadata = metadata.val])
    ELSE YamlErr

\* The fields of YCard in declaration order.
YCardFields ==
  <<S_version, S_uid, S_name, S_phones, S_emails, S_addresses, S_metadata>>

\* A sequence read as a struct gives the fields by position.
positional(items) ==
  [i \in 1..Len(YCardFields) |-> Entry(VString(YCardFields[i]), items[i])]

\* YCard from the entries of a mapping: version is required, the other
\* fields are Options; the keys that name no field are not looked at.
deserialize_YCard_fields(entries) ==
  ycard_of_fields(deserialize_u8(required(entries, S_version)),
                  deserialize_Option(entries, S_uid, "String"),
                  deserialize_Option_field(entries, S_name),
                  deserialize_Option_field(entries, S_phones),
                  deserialize_Option_field(entries, S_emails),
                  deserialize_Option_field(entries, S_addresses),
                  deserialize_Option_field(entries, S_metadata))

\* YCard
deserialize_YCard(value) ==
  IF value.t = "Mapping" THEN deserialize_YCard_fields(value.v)
  ELSE IF value.t = "Sequence" /\ Len(value.v) = Len(YCardFields)
    THEN deserialize_YCard_fields(positional(value.v))
  ELSE YamlErr

(***************************************************************************)
(* Inputs of the parser.                                                   *)
(***************************************************************************)
N_plus15 == <<"+","1","5">>
N_plus49 == <<"+","4","9"," ","3","0">>
N_national == <<"0","6","1","2","3","4","5","6","7","8">>
N_short == <<"1","2">>
S_jane == <<"J","a","n","e">>
S_jane_at == <<"j","@","x">>

PhoneObject(es) == VMapping(es)

PhoneValues ==
  { VString(N_plus15),
    VString(N_short),
    VSequence(<<VString(N_national), VString(N_plus49)>>),
    VSequence(<<PhoneObject(<<Entry(VString(S_number), VString(N_plus49))>>)>>),
    VSequence(<<PhoneObject(<<Entry(VString(S_type), VString(S_home))>>)>>),
    PhoneObject(<<Entry(VString(S_number), VString(N_plus15)),
                  Entry(VString(S_type), VString(S_work))>>),
    VNull }

PhoneKeys == {S_phones, S_phone, S_mobile, S_portable}

\* The shapes of the "type" field of a phone or email object that leave no
\* string: an empty sequence and a sequence without strings.
TypeShapes == {VSequence(<<>>), VSequence(<<VNumber(7)>>)}

\* Phone and email lists whose objects have each shape of "type".
TypeShapeEntries ==
  {Entry(VString(S_phones),
         VSequence(<<PhoneObject(<<Entry(VString(S_number), VString(N_plus15)),
                                   Entry(VString(S_type), ty)>>)>>)) : ty \in TypeShapes}
    \cup {Entry(VString(S_emails),
                VSequence(<<VMapping(<<Entry(VString(S_address), VString(S_jane_at)),
                                       Entry(VString(S_type), ty)>>)>>)) : ty \in TypeShapes}
    \cup {Entry(VString(S_phones),
                PhoneObject(<<Entry(VString(S_number), VString(N_plus15)),
                              Entry(VString(S_type),
                                    VSequence(<<VString(S_home), VString(S_work)>>))>>)),
          Entry(VString(S_emails),
                VSequence(<<VString(S_jane_at),
                            VMapping(<<Entry(VString(S_address), VString(S_jane_at))>>),
                            VMapping(<<Entry(VString(S_address), VString(S_jane_at)),
                                       Entry(VString(S_type), VString(S_work))>>),
                            VMapping(<<Entry(VString(S_address), VString(S_jane_at)),
                                       Entry(VString(S_type),
                                             VSequence(<<VString(S_home),
                                                         VString(S_work)>>))>>)>>))}

\* Values of "version": small integers, an integer above u8::MAX, a negative
\* one, a float and a string.
VersionValues ==
  {VNumber(0), VNumber(2), VNumber(255), VNumber(256), VNumber(-1),
   VFloat(3, 2), VString(<<"2">>)}

\* Keys that resolve to no field, with values of several shapes.
UnknownEntries ==
  {Entry(VString(<<"x">>), v) : v \in {VNull, VString(N_short), VMapping(<<>>)}}

TopEntries ==
  {Entry(VString(k), v) : k \in PhoneKeys, v \in PhoneValues}
    \cup TypeShapeEntries
    \cup {Entry(VString(S_version), v) : v \in VersionValues}
    \cup UnknownEntries
    \cup { Entry(VString(S_name), VString(S_jane)),
           Entry(VString(S_name), VNumber(7)),
           Entry(VString(S_metadata), VString(S_jane)),
           Entry(VString(S_email), VString(S_jane_at)),
           Entry(VNumber(7), VString(N_plus15)) }

\* The entries of a mapping have pairwise distinct keys.
DistinctKeys(es) == \A i, j \in 1..Len(es) : es[i].k = es[j].k => i = j

NonMappings == {VNull, VBool(TRUE), VNumber(1), VString(S_jane), VSequence(<<VString(S_jane)>>)}

\* Entries of the documents given to parse_strict: canonical fields of the
\* canonical shape and of other shapes, a shorthand key, an alias and a key
\* that names nothing.
StrictEntries ==
  { Entry(VString(S_version), VNumber(1)),
    Entry(VString(S_version), VNumber(256)),
    Entry(VString(S_phones),
          VSequence(<<PhoneObject(<<Entry(VString(S_number), VString(N_short)),
                                    Entry(VString(S_type),
                                          VSequence(<<VString(S_home)>>))>>)>>)),
    Entry(VString(S_phones),
          VSequence(<<PhoneObject(<<Entry(VString(S_number), VString(N_plus15))>>)>>)),
    Entry(VString(S_phones), VString(N_plus15)),
    Entry(VString(S_mobile), VString(N_plus15)),
    Entry(VString(S_phone), VString(N_plus15)),
    Entry(VString(<<"x">>), VNull),
    Entry(VString(S_name), VMapping(<<Entry(VString(F_displayName), VString(S_jane))>>)),
    Entry(VString(S_name), VString(S_jane)),
    Entry(VString(S_emails),
          VSequence(<<VMapping(<<Entry(VString(S_address), VString(S_jane_at)),
                                 Entry(VString(S_type),
                                       VSequence(<<VString(S_work)>>))>>)>>)) }

ParseLocales == {None, Some(S_fr)}
ParsePacks == {PackA}

\* Inputs of normalize_phone_number: a short head, then a run of digits.
PhoneHeads ==
  {<<>>} \cup {<<a>> : a \in {"+", "5", " ", "U+0663"}}
         \cup {<<a, b>> : a \in {"+", "5", " "}, b \in {"+", "5", "-"}}
PhoneTails ==
  {<<>>, <<"1">>, <<"1","+","2">>,
   <<"1","2","3","4","5","6","7","8">>,
   <<"1","2","3","4","5","6","7","8","9">>,
   <<"1","2","3","4","+","5","6","7","8","9">>}
PhoneStrings ==
  {h \o t : h \in PhoneHeads, t \in PhoneTails}
    \cup {<<"+","4","9"," ","3","0"," ","1","2","3","4","5","6","7","8">>,
          <<"0","6"," ","1","2"," ","3","4"," ","5","6"," ","7","8">>}

(***************************************************************************)
(* The parser as a state machine: a Parser owns an alias manager           *)
(* (Parser::new, Parser::with_alias_manager) and answers calls.  A call    *)
(* leaves the manager as it is, so calls are taken from the states that    *)
(* follow the construction or a change of the manager.                     *)
(***************************************************************************)
InitParse ==
  /\ packs = AliasManager_new.packs
  /\ default_locale = AliasManager_new.default_locale
  /\ map_remove \in {"shift_remove", "swap_remove"}
  /\ call = [op |-> "new"]
  /\ StaticsUntouched

Idle == call.op \in {"new", "load_pack"}

\* Parser::with_alias_manager on a manager that loaded one more pack.
with_alias_manager(p) ==
  /\ p \notin Range(packs)
  /\ load_pack(p)

\* Parser::parse_lenient on the text of `value`.
parse_lenient(value, locale) ==
  /\ call' = [op |-> "parse_lenient", value |-> value, locale |-> locale,
              ret |-> value_to_ycard(manager, value, locale, map_remove)]
  /\ UNCHANGED <<packs, default_locale, map_remove, statics>>

\* Parser::parse_lenient on a text that is not YAML: `serde_yaml::from_str(input)?`
\* returns before value_to_ycard.
parse_lenient_yaml_err(locale) ==
  /\ call' = [op |-> "parse_lenient_yaml_err", locale |-> locale,
              ret |-> Err("Yaml", "from_str")]
  /\ UNCHANGED <<packs, default_locale, map_remove, statics>>

\* Parser::parse_strict on the text of `value`.
parse_strict(value) ==
  /\ call' = [op |-> "parse_strict", value |-> value, ret |-> deserialize_YCard(value)]
  /\ UNCHANGED <<packs, default_locale, map_remove, statics>>

NormalizePhoneNumber(number) ==
  /\ call' = [op |-> "normalize_phone_number", number |-> number,
              ret |-> normalize_phone_number(number)]
  /\ UNCHANGED <<packs, default_locale, map_remove, statics>>

NextParse ==
  \/ \E p \in ParsePacks : with_alias_manager(p)
  \/ Idle /\ \E v \in NonMappings, l \in ParseLocales : parse_lenient(v, l)
  \/ Idle /\ \E n \in 0..MaxKeys : \E es \in [1..n -> TopEntries], l \in ParseLocales :
        DistinctKeys(es) /\ parse_lenient(VMapping(es), l)
  \/ Idle /\ \E l \in ParseLocales : parse_lenient_yaml_err(l)
  \/ Idle /\ \E v \in NonMappings : parse_strict(v)
  \/ Idle /\ \E n \in 0..MaxKeys : \E es \in [1..n -> StrictEntries] :
        DistinctKeys(es) /\ parse_strict(VMapping(es))
  \/ Idle /\ \E n \in PhoneStrings : NormalizePhoneNumber(n)

SpecParse == InitParse /\ [][NextParse]_vars

(***************************************************************************)
(* The lenient parser on longer documents over few entries: phone keys of  *)
(* each kind and keys that resolve to no field.                            *)
(***************************************************************************)
MaxDropKeys == 4

DropEntries ==
  { Entry(VString(S_mobile), VString(N_plus15)),
    Entry(VString(S_portable), VString(N_plus15)),
    Entry(VString(S_emails), VString(S_jane)),
    Entry(VString(S_tel), VString(S_jane_at)),
    Entry(VString(S_phones), VString(N_plus49)),
    Entry(VString(S_phone), VString(N_plus15)),
    Entry(VString(S_version), VNumber(2)),
    Entry(VString(<<"x">>), VNull),
    Entry(VString(<<"x">>), VString(N_short)),
    Entry(VString(<<"y">>), VMapping(<<>>)) }

NextDrop ==
  \/ \E p \in ParsePacks : with_alias_manager(p)
  \/ Idle /\ \E n \in 0..MaxDropKeys : \E es \in [1..n -> DropEntries], l \in ParseLocales :
        DistinctKeys(es) /\ parse_lenient(VMapping(es), l)

SpecDrop == InitParse /\ [][NextDrop]_vars

(***************************************************************************)
(* validator.rs: the diagnostics engine.                                   *)
(***************************************************************************)
Position(line, character) == [line |-> line, character |-> character]
TextRange(start, end) == [start |-> start, end |-> end]
CodeFix(title, kind, range, new_text) ==
  [title |-> title, kind |-> kind, edit |-> [range |-> range, new_text |-> new_text]]

\* A Diagnostic; the message is its format string and its argument.
Diagnostic(level, fmt, arg, code, fixes) ==
  [level |-> level, message |-> [fmt |-> fmt, arg |-> arg], code |-> Some(code),
   range |-> None, fixes |-> fixes]

\* str::contains(char)
contains(s, c) == \E i \in 1..Len(s) : s[i] = c

\* The loop of validate_lenient over the phones.
phone_diagnostics(phones) ==
  LET bad == SelectSeq(phones, LAMBDA phone : ~starts_with(phone.number, <<"+">>))
  IN  [i \in 1..Len(bad) |->
         Diagnostic("Warning", "Phone number should be in E.164 format: {}",
                    bad[i].number, "phone-format", <<>>)]

\* The loop of validate_lenient over the emails.
email_diagnostics(emails) ==
  LET bad == SelectSeq(emails, LAMBDA email : ~contains(email.address, "@"))
  IN  [i \in 1..Len(bad) |->
         Diagnostic("Error", "Invalid email address: {}",
                    bad[i].address, "email-invalid", <<>>)]

\* A slip: the emails walked before the phones.
validate_lenient_emails_first(ycard) ==
  (IF ycard.version = 0
     THEN <<Diagnostic("Warning", "Version should be specified (defaulting to 1)", <<>>,
                       "version-missing",
                       <<CodeFix("Add version: 1", "quickfix",
                                 TextRange(Position(0, 0), Position(0, 0)),
                                 "version: 1\n")>>)>>
     ELSE <<>>)
  \o (IF ycard.emails.some THEN email_diagnostics(ycard.emails.val) ELSE <<>>)
  \o (IF ycard.phones.some THEN phone_diagnostics(ycard.phones.val) ELSE <<>>)

\* Validator::validate_lenient: what it pushes, in order.
validate_lenient(ycard) ==
  (IF ycard.version = 0
     THEN <<Diagnostic("Warning", "Version should be specified (defaulting to 1)", <<>>,
                       "version-missing",
                       <<CodeFix("Add version: 1", "quickfix",
                                 TextRange(Position(0, 0), Position(0, 0)),
                                 "version: 1\n")>>)>>
     ELSE <<>>)
  \o (IF ycard.phones.some THEN phone_diagnostics(ycard.phones.val) ELSE <<>>)
  \o (IF ycard.emails.some THEN email_diagnostics(ycard.emails.val) ELSE <<>>)

\* The loop of validate_strict that turns warnings into errors.
warnings_to_errors(diagnostics) ==
  [i \in 1..Len(diagnostics) |->
     IF diagnostics[i].level = "Warning"
       THEN [diagnostics[i] EXCEPT !.level = "Error"]
       ELSE diagnostics[i]]

\* A slip: is_none() taken as "has no item", so that an empty list counts as
\* absent.
empty_contact_no_items(ycard) ==
  IF /\ ~ycard.name.some
     /\ (~ycard.phones.some \/ ycard.phones.val = <<>>)
     /\ (~ycard.emails.some \/ ycard.emails.val = <<>>)
    THEN <<Diagnostic("Error", "At least one of name, phones, or emails must be present",
                      <<>>, "empty-contact", <<>>)>>
    ELSE <<>>

\* The last check of validate_strict.
empty_contact(ycard) ==
  IF ~ycard.name.some /\ ~ycard.phones.some /\ ~ycard.emails.some
    THEN <<Diagnostic("Error", "At least one of name, phones, or emails must be present",
                      <<>>, "empty-contact", <<>>)>>
    ELSE <<>>

\* A slip: the lenient diagnostics kept at their own severity.
validate_strict_unpromoted(ycard) ==
  validate_lenient(ycard) \o empty_contact(ycard)

\* Validator::validate_strict
validate_strict(ycard) ==
  warnings_to_errors(validate_lenient(ycard)) \o empty_contact(ycard)

\* A slip: the content checks run before the version check.
validate_schema_only_with_content(ycard) ==
  validate_lenient(ycard)
  \o (IF ycard.version > 1
        THEN <<Diagnostic("Error", "Unsupported version: {}", ycard.version,
                          "version-unsupported", <<>>)>>
        ELSE <<>>)

\* Validator::validate_schema_only
validate_schema_only(ycard) ==
  IF ycard.version > 1
    THEN <<Diagnostic("Error", "Unsupported version: {}", ycard.version,
                      "version-unsupported", <<>>)>>
    ELSE <<>>

\* A slip: a Strict run that found errors returned as a ValidationError.
validate_err_on_errors(mode, ycard) ==
  IF mode = "Lenient" THEN Ok(validate_lenient(ycard))
  ELSE IF mode = "Strict" THEN
    IF validate_strict(ycard) # <<>>
      THEN Err("SchemaViolation", "strict")
      ELSE Ok(validate_strict(ycard))
  ELSE Ok(validate_schema_only(ycard))

\* Validator::validate
validate(mode, ycard) ==
  IF mode = "Lenient" THEN Ok(validate_lenient(ycard))
  ELSE IF mode = "Strict" THEN Ok(validate_strict(ycard))
  ELSE Ok(validate_schema_only(ycard))

(***************************************************************************)
(* The validator as a state machine: one call on a document.               *)
(***************************************************************************)
MaxItems == 2

ValidationModes == {"Lenient", "Strict", "SchemaOnly"}

SeqsUpTo(S, n) == UNION {[1..m -> S] : m \in 0..n}

DocPhones ==
  {Phone(n, <<Kind("Other")>>, None) : n \in {N_plus15, N_short, <<>>}}
DocEmails ==
  {Email(a, <<Kind("Other")>>) : a \in {S_jane_at, S_jane, <<"x">>}}
DocVersions == {0, 1, 2}
DocNames == {None, Some([EmptyName EXCEPT !.display_name = Some(S_jane)])}

InitValidate ==
  /\ packs = AliasManager_new.packs
  /\ default_locale = AliasManager_new.default_locale
  /\ map_remove = "shift_remove"
  /\ call = [op |-> "new"]
  /\ StaticsUntouched

Validate(mode, ycard) ==
  /\ call' = [op |-> "validate", mode |-> mode, ycard |-> ycard,
              ret |-> validate(mode, ycard)]
  /\ UNCHANGED <<packs, default_locale, map_remove, statics>>

\* One more call on the Document of the last call: validate borrows the
\* Document (&YCard), which the caller still holds as it was.
validate_again(mode) ==
  /\ call.op = "validate"
  /\ Validate(mode, call.ycard)

NextValidate ==
  \/ call.op = "new" /\
       \E mode \in ValidationModes, version \in DocVersions, name \in DocNames,
          phones \in {None} \cup {Some(ps) : ps \in SeqsUpTo(DocPhones, MaxItems)},
          emails \in {None} \cup {Some(es) : es \in SeqsUpTo(DocEmails, MaxItems)} :
         Validate(mode, [YCard_default EXCEPT !.version = version, !.name = name,
                                              !.phones = phones, !.emails = emails])
  \/ \E mode \in ValidationModes : validate_again(mode)

SpecValidate == InitValidate /\ [][NextValidate]_vars

(***************************************************************************)
(* The list coercions of the parser on values of every shape.              *)
(***************************************************************************)
S_Jane_Doe == <<"J","a","n","e"," ","D","o","e">>
N_us_spaced == <<"+","1"," ","5","5","5"," ","1","2","3"," ","4","5","6","7">>
N_us == <<"+","1","5","5","5","1","2","3","4","5","6","7">>
N_fr_spaced == <<"0","6"," ","1","2"," ","3","4"," ","5","6"," ","7","8">>
S_jane_example ==
  <<"j","a","n","e","@","e","x","a","m","p","l","e",".","c","o","m">>

PhoneItems ==
  { VString(N_plus15), VString(N_fr_spaced), VString(N_short),
    PhoneObject(<<Entry(VString(S_number), VString(N_plus49))>>),
    PhoneObject(<<Entry(VString(S_number), VString(N_plus15)),
                  Entry(VString(S_type), VString(S_handy))>>),
    PhoneObject(<<Entry(VString(S_number), VString(N_plus15)),
                  Entry(VString(S_type),
                        VSequence(<<VString(S_handy), VString(S_home)>>))>>),
    VNumber(7) }

EmailItems ==
  { VString(S_jane_at), VString(S_Jane_Doe),
    VMapping(<<Entry(VString(S_address), VString(S_jane_example))>>),
    VMapping(<<Entry(VString(S_address), VString(<<"x">>)),
               Entry(VString(S_type), VString(S_work))>>),
    VNumber(7) }

\* A value of each shape: an item alone, a sequence of items, a boolean and
\* null.
ValuesOf(items) ==
  items \cup {VSequence(seq) : seq \in SeqsUpTo(items, MaxItems)} \cup {VBool(TRUE), VNull}

CoerceLocales == {None, Some(S_fr), Some(S_frCA)}

ExtractPhones(value, locale) ==
  /\ call' = [op |-> "extract_phones", value |-> value, locale |-> locale,
              ret |-> extract_phones(value, locale)]
  /\ UNCHANGED <<packs, default_locale, map_remove, statics>>

ExtractEmails(value, locale) ==
  /\ call' = [op |-> "extract_emails", value |-> value, locale |-> locale,
              ret |-> extract_emails(value, locale)]
  /\ UNCHANGED <<packs, default_locale, map_remove, statics>>

NextCoerce ==
  \/ \E p \in ParsePacks : with_alias_manager(p)
  \/ Idle /\ \E v \in ValuesOf(PhoneItems), l \in CoerceLocales : ExtractPhones(v, l)
  \/ Idle /\ \E v \in ValuesOf(EmailItems), l \in CoerceLocales : ExtractEmails(v, l)

SpecCoerce == InitParse /\ [][NextCoerce]_vars

(***************************************************************************)
(* lib.rs: parse and validate, the crate's entry points.  parse makes a    *)
(* Parser of its own (Parser::new, a new AliasManager) for each call.      *)
(***************************************************************************)
MaxDocKeys == 4

\* The entries of the documents of test_end_to_end and test_localized_input.
DocEntries ==
  { Entry(VString(S_version), VNumber(1)),
    Entry(VString(S_name), VString(S_Jane_Doe)),
    Entry(VString(S_mobile), VString(N_us_spaced)),
    Entry(VString(S_email), VString(S_jane_example)),
    Entry(VString(S_phone), VString(N_fr_spaced)) }

DocLocales == {None, Some(S_en), Some(S_fr)}

\* lib.rs parse
parse(value, locale) ==
  /\ call' = [op |-> "parse", value |-> value, locale |-> locale,
              ret |-> value_to_ycard(AliasManager_new, value, locale, map_remove)]
  /\ UNCHANGED <<packs, default_locale, map_remove, statics>>

\* lib.rs validate, on the Document the last parse returned.
validate_parsed(mode) ==
  /\ call.op = "parse"
  /\ call.ret.ok
  /\ call' = [op |-> "validate", mode |-> mode, ycard |-> call.ret.val,
              input |-> call.value, locale |-> call.locale,
              ret |-> validate(mode, call.ret.val)]
  /\ UNCHANGED <<packs, default_locale, map_remove, statics>>

NextLib ==
  \/ call.op = "new" /\
       \E n \in 0..MaxDocKeys : \E es \in [1..n -> DocEntries], l \in DocLocales :
         DistinctKeys(es) /\ parse(VMapping(es), l)
  \/ \E mode \in ValidationModes : validate_parsed(mode)

SpecLib == InitParse /\ [][NextLib]_vars

(***************************************************************************)
(* wasm.rs: the handle-based exports.  The statics ALIAS_MANAGER (packs,   *)
(* default_locale), DOCUMENT_ARENA, NEXT_HANDLE and LAST_ERROR are each    *)
(* behind a mutex of their own.  A step of a call is one critical section, *)
(* together with the thread-local computation that leads to it.            *)
(***************************************************************************)
MaxParses == 2

I32_MAX == 2147483647
I32_MIN == (-2147483647) - 1

\* `*next_handle += 1` in a build without overflow checks.
wrapping_add(n, one) == IF n = I32_MAX THEN I32_MIN ELSE n + one

\* The messages of set_last_error.
E_InvalidUtf8 == <<"Invalid UTF-8">>
E_HandleLock == <<"Failed to acquire handle lock">>
E_InvalidHandle == <<"Invalid handle">>
E_LoadPack == <<"Load pack error">>
E_Parse(e) == <<"Parse error", e.err>>

\* What is found at an address whose String was dropped.
FreedMemory == <<"freed">>

\* The bytes handed to yc_parse: not UTF-8, or the text of a YAML value.
InvalidUtf8 == [utf8 |-> FALSE, yaml |-> VNull]
Text(value) == [utf8 |-> TRUE, yaml |-> value]

FfiInputs ==
  { InvalidUtf8,
    Text(VMapping(<<Entry(VString(S_tel), VString(N_plus15))>>)),
    Text(VMapping(<<Entry(VString(S_mobile), VString(N_short))>>)) }

FfiLocales == {S_fr}

\* The counter before any call, and after I32_MAX - 1 calls of yc_parse whose
\* documents were freed.
InitFfi ==
  /\ packs = AliasManager_new.packs
  /\ default_locale = AliasManager_new.default_locale
  /\ map_remove = "shift_remove"
  /\ call = [op |-> "new"]
  /\ arena = <<>>
  /\ next_handle \in {1, I32_MAX}
  /\ last_error = None
  /\ threads = [t \in Threads |-> IdleThread]
  /\ returned = <<>>
  /\ poisoned = FALSE
  /\ overflow_checks \in BOOLEAN

\* set_last_error
set_last_error(error) == last_error' = Some(error)

InFlight == {t \in Threads : threads[t].pc # "idle"}

\* A slip: the parser reads the shared alias manager, not the clone.
parser_parse_lenient_shared(alias_manager, input) ==
  value_to_ycard(manager, input.yaml, None, map_remove)

\* Parser::with_alias_manager(alias_manager), then parser.parse_lenient(input, None)
parser_parse_lenient(alias_manager, input) ==
  value_to_ycard(alias_manager, input.yaml, None, map_remove)

\* The result of the parse a thread is in.
parsed(t) == parser_parse_lenient(threads[t].alias_manager.val, threads[t].input.val)

\* yc_parse on bytes that are not UTF-8.
yc_parse_invalid_utf8(t) ==
  /\ threads[t].pc = "idle"
  /\ set_last_error(E_InvalidUtf8)
  /\ call' = [op |-> "yc_parse", ret |-> -1, error |-> E_InvalidUtf8]
  /\ UNCHANGED <<packs, default_locale, map_remove, arena, next_handle, threads,
                 returned, poisoned, overflow_checks>>

\* yc_parse up to `manager.clone()` under the lock of ALIAS_MANAGER.
yc_parse_clone_manager(t, input) ==
  /\ threads[t].pc = "idle"
  /\ input.utf8
  /\ Len(returned) + Cardinality(InFlight) < MaxParses
  /\ threads' = [threads EXCEPT ![t] =
                   [pc |-> "parse", input |-> Some(input), alias_manager |-> Some(manager),
                    handle |-> 0, ycard |-> None]]
  /\ UNCHANGED <<packs, default_locale, map_remove, call, arena, next_handle, last_error,
                 returned, poisoned, overflow_checks>>

\* yc_parse: the Err arm of the match on parse_lenient.
yc_parse_err(t) ==
  /\ threads[t].pc = "parse"
  /\ ~parsed(t).ok
  /\ set_last_error(E_Parse(parsed(t)))
  /\ threads' = [threads EXCEPT ![t] = IdleThread]
  /\ call' = [op |-> "yc_parse", ret |-> -1, error |-> E_Parse(parsed(t))]
  /\ UNCHANGED <<packs, default_locale, map_remove, arena, next_handle, returned,
                 poisoned, overflow_checks>>

\* yc_parse: the Ok arm, up to the end of the critical section of NEXT_HANDLE.
yc_parse_next_handle(t) ==
  /\ threads[t].pc = "parse"
  /\ ~poisoned
  /\ ~(overflow_checks /\ next_handle = I32_MAX)
  /\ parsed(t).ok
  /\ next_handle' = wrapping_add(next_handle, 1)
  /\ returned' = Append(returned, next_handle)
  /\ threads' = [threads EXCEPT ![t] =
                   [IdleThread EXCEPT !.pc = "insert", !.handle = next_handle,
                                      !.ycard = Some(parsed(t).val)]]
  /\ UNCHANGED <<packs, default_locale, map_remove, call, arena, last_error, poisoned,
                 overflow_checks>>

\* `*next_handle += 1` overflows in a build with overflow checks: the thread
\* panics with the guard of NEXT_HANDLE held, and the call does not return.
yc_parse_overflow_panic(t) ==
  /\ threads[t].pc = "parse"
  /\ ~poisoned
  /\ overflow_checks /\ next_handle = I32_MAX
  /\ parsed(t).ok
  /\ poisoned' = TRUE
  /\ threads' = [threads EXCEPT ![t] = [IdleThread EXCEPT !.pc = "panicked"]]
  /\ UNCHANGED <<packs, default_locale, map_remove, call, arena, next_handle, last_error,
                 returned, overflow_checks>>

\* yc_parse: the lock of NEXT_HANDLE is poisoned.
yc_parse_handle_lock_err(t) ==
  /\ threads[t].pc = "parse"
  /\ poisoned
  /\ parsed(t).ok
  /\ set_last_error(E_HandleLock)
  /\ threads' = [threads EXCEPT ![t] = IdleThread]
  /\ call' = [op |-> "yc_parse", ret |-> -1, error |-> E_HandleLock]
  /\ UNCHANGED <<packs, default_locale, map_remove, arena, next_handle, returned,
                 poisoned, overflow_checks>>

\* yc_parse: arena.insert(handle, ycard) and the return of the handle.
yc_parse_insert(t) ==
  /\ threads[t].pc = "insert"
  /\ arena' = (threads[t].handle :> threads[t].ycard.val) @@ arena
  /\ threads' = [threads EXCEPT ![t] = IdleThread]
  /\ call' = [op |-> "yc_parse", ret |-> threads[t].handle]
  /\ UNCHANGED <<packs, default_locale, map_remove, next_handle, last_error, returned,
                 poisoned, overflow_checks>>

\* yc_normalize
yc_normalize(handle) ==
  /\ IF handle \in DOMAIN arena
       THEN /\ call' = [op |-> "yc_normalize", handle |-> handle, ret |-> handle]
            /\ UNCHANGED last_error
       ELSE /\ set_last_error(E_InvalidHandle)
            /\ call' = [op |-> "yc_normalize", handle |-> handle, ret |-> -1,
                        error |-> E_InvalidHandle]
  /\ UNCHANGED <<packs, default_locale, map_remove, arena, next_handle, threads,
                 returned, poisoned, overflow_checks>>

\* yc_load_alias_pack on a well-formed pack document, each document once.
yc_load_alias_pack(p) ==
  /\ p \notin Range(packs)
  /\ packs' = Append(packs, p)
  /\ call' = [op |-> "yc_load_alias_pack", ret |-> 0]
  /\ UNCHANGED <<default_locale, map_remove, statics>>

\* yc_load_alias_pack on bytes that are not UTF-8 (`utf8` false) or not the
\* JSON of a pack.
yc_load_alias_pack_err(utf8) ==
  /\ set_last_error(IF utf8 THEN E_LoadPack ELSE E_InvalidUtf8)
  /\ call' = [op |-> "yc_load_alias_pack", ret |-> -1,
              error |-> IF utf8 THEN E_LoadPack ELSE E_InvalidUtf8]
  /\ UNCHANGED <<packs, default_locale, map_remove, arena, next_handle, threads,
                 returned, poisoned, overflow_checks>>

\* yc_clear_aliases
yc_clear_aliases ==
  /\ packs' = <<FallbackPack>>
  /\ call' = [op |-> "yc_clear_aliases", ret |-> 0]
  /\ UNCHANGED <<default_locale, map_remove, statics>>

\* yc_set_default_locale
yc_set_default_locale(locale) ==
  /\ default_locale' = locale
  /\ call' = [op |-> "yc_set_default_locale", ret |-> 0]
  /\ UNCHANGED <<packs, map_remove, statics>>

\* yc_set_default_locale on bytes that are not UTF-8.
yc_set_default_locale_invalid_utf8 ==
  /\ set_last_error(E_InvalidUtf8)
  /\ call' = [op |-> "yc_set_default_locale", ret |-> -1, error |-> E_InvalidUtf8]
  /\ UNCHANGED <<packs, default_locale, map_remove, arena, next_handle, threads,
                 returned, poisoned, overflow_checks>>

\* yc_free
yc_free(handle) ==
  /\ arena' = [h \in DOMAIN arena \ {handle} |-> arena[h]]
  /\ call' = [op |-> "yc_free", handle |-> handle, ret |-> 0]
  /\ UNCHANGED <<packs, default_locale, map_remove, next_handle, last_error, threads,
                 returned, poisoned, overflow_checks>>

\* yc_last_error returns the address of the bytes of a clone of the message;
\* the clone is dropped when the function returns, so `read`, what the caller
\* finds at the address, is the message or whatever took its place.
yc_last_error(read) ==
  /\ IF last_error.some
       THEN /\ read \in {last_error.val, FreedMemory}
            /\ call' = [op |-> "yc_last_error", ret |-> 1, read |-> read]
       ELSE /\ read = <<>>
            /\ call' = [op |-> "yc_last_error", ret |-> 0, read |-> read]
  /\ UNCHANGED <<packs, default_locale, map_remove, statics>>

\* The handles a caller holds or makes up.
SomeHandles == Range(returned) \cup {0}

NextFfi ==
  \/ \E t \in Threads : yc_parse_invalid_utf8(t)
  \/ \E t \in Threads, input \in FfiInputs : yc_parse_clone_manager(t, input)
  \/ \E t \in Threads : yc_parse_err(t)
  \/ \E t \in Threads : yc_parse_next_handle(t)
  \/ \E t \in Threads : yc_parse_overflow_panic(t)
  \/ \E t \in Threads : yc_parse_handle_lock_err(t)
  \/ \E t \in Threads : yc_parse_insert(t)
  \/ \E h \in SomeHandles : yc_normalize(h)
  \/ \E p \in ParsePacks : yc_load_alias_pack(p)
  \/ \E utf8 \in BOOLEAN : yc_load_alias_pack_err(utf8)
  \/ yc_clear_aliases
  \/ \E l \in FfiLocales : yc_set_default_locale(l)
  \/ yc_set_default_locale_invalid_utf8
  \/ \E h \in SomeHandles : yc_free(h)
  \/ \E read \in {<<>>, FreedMemory} \cup (IF last_error.some THEN {last_error.val} ELSE {}) :
       yc_last_error(read)

SpecFfi == InitFfi /\ [][NextFfi]_vars

(***************************************************************************)
(* Properties of the alias store.                                          *)
(***************************************************************************)
HasDash(l) == \E i \in 1..Len(l) : l[i] = "-"

\* The language subtag: the dash-free prefix of l that a '-' follows.
LanguageSubtag(l) ==
  CHOOSE p \in {SubSeq(l, 1, n) : n \in 0..Len(l)} :
    /\ ~HasDash(p)
    /\ Len(p) < Len(l)
    /\ l[Len(p) + 1] = "-"

\* The fallback chain as section 4.1 states it.
ExpectedChain(l) ==
  IF l = S_root THEN <<l>>
  ELSE IF HasDash(l) /\ LanguageSubtag(l) # l THEN <<l, LanguageSubtag(l), S_root>>
  ELSE <<l, S_root>>

AliasField == IF call.op = "resolve_key" THEN "key_aliases" ELSE "type_aliases"

\* Pack i has, under the j-th chain locale, an entry stored under key k.
Hit(chain, field, k, i, j) ==
  /\ chain[j] \in DOMAIN packs[i].locales
  /\ k \in DOMAIN packs[i].locales[chain[j]][field]

Hits(chain, field, k) ==
  {h \in (1..Len(packs)) \X (1..Len(chain)) : Hit(chain, field, k, h[1], h[2])}

\* C1: resolve_key and resolve_type return the entry of the most recently
\* loaded pack that has one under a locale of the fallback chain, and inside
\* that pack the entry of the first such chain locale; none if no pack has one.
C1_FirstMatchLatestPack ==
  call.op \in {"resolve_key", "resolve_type"} =>
    LET chain == ExpectedChain(unwrap_or(call.locale, default_locale))
        k == normalize_key(call.key)
        hits == Hits(chain, AliasField, k)
    IN  IF hits = {} THEN call.ret = None
        ELSE \E h \in hits :
               /\ \A g \in hits : g[1] < h[1] \/ (g[1] = h[1] /\ g[2] >= h[2])
               /\ call.ret = Some(packs[h[1]].locales[chain[h[2]]][AliasField][k])

\* A pack loaded later that matches only at root beats an earlier pack that
\* matches at fr-CA itself.
C1_Witness ==
  /\ call.op = "resolve_key"
  /\ call.locale = Some(S_frCA)
  /\ call.key = S_tel
  /\ packs = <<FallbackPack, PackA, PackB>>
  /\ call.ret = Some(S_uid)

\* C2: two raw keys with the same normalized form resolve identically, for
\* every locale argument and in every state of the store.
C2_NormalizedKeysResolveAlike ==
  call.op = "resolve_key" =>
    \A k2 \in RawKeys :
      normalize_key(k2) = normalize_key(call.key) =>
        resolve_key_alias(manager, k2, call.locale) = call.ret

\* "Tél" (precomposed e-acute) resolves, and to what "tel" resolves to.
C2_Witness ==
  /\ call.op = "resolve_key"
  /\ call.key = S_Tel
  /\ call.ret.some
  /\ PackC \in Range(packs)
  /\ resolve_key_alias(manager, S_tel, call.locale) = call.ret

\* C3: a raw key matches every alias entry whose stored key normalizes to the
\* same form, also when the stored key has uppercase letters or diacritics.
C3_BothSidesNormalized ==
  call.op \in {"resolve_key", "resolve_type"} =>
    LET chain == ExpectedChain(unwrap_or(call.locale, default_locale))
    IN  (\E i \in 1..Len(packs), j \in 1..Len(chain) :
           /\ chain[j] \in DOMAIN packs[i].locales
           /\ \E ak \in DOMAIN packs[i].locales[chain[j]][AliasField] :
                normalize_key(ak) = normalize_key(call.key))
        => call.ret.some

\* C4: the fallback chain of L is L, then the language subtag when L has a
\* '-' and the subtag differs from L, then root unless L is root.
C4_LocaleChain ==
  call.op = "build_locale_chain" =>
    /\ call.ret = ExpectedChain(call.locale)
    /\ call.locale = S_frCA => call.ret = <<S_frCA, S_fr, S_root>>
    /\ call.locale = S_fr => call.ret = <<S_fr, S_root>>
    /\ call.locale = S_root => call.ret = <<S_root>>

C4_Witness ==
  /\ call.op = "build_locale_chain"
  /\ call.locale = S_frCA
  /\ call.ret = <<S_frCA, S_fr, S_root>>

IsLoad(c) == c.op \in {"load_pack", "load_pack_bytes"}

\* C14: a load of a malformed document fails and leaves the pack list and
\* the default locale as they were, so that every resolve_key and
\* resolve_type answers as before; a successful load appends its pack after
\* the packs already there and changes none of them.
C14_LoadPackAtomic ==
  [][IsLoad(call') =>
       IF call'.ok
         THEN /\ Len(packs') = Len(packs) + 1
              /\ SubSeq(packs', 1, Len(packs)) = packs
              /\ packs'[Len(packs')] = call'.pack
              /\ default_locale' = default_locale
         ELSE /\ packs' = packs
              /\ default_locale' = default_locale
              /\ \A k \in RawKeys, l \in LocaleArgs :
                   /\ resolve_key_alias(manager', k, l) = resolve_key_alias(manager, k, l)
                   /\ resolve_type_alias(manager', k, l)
                        = resolve_type_alias(manager, k, l)]_vars

\* A load fails on a store that holds a loaded pack and a default locale
\* of its own.
C14_Witness ==
  /\ IsLoad(call)
  /\ ~call.ok
  /\ packs = <<FallbackPack, PackA>>
  /\ default_locale = S_fr
  /\ call.before = manager

\* C15: the pack list starts as the fallback pack alone; a clear makes it the
\* fallback pack alone again, a successful load appends its pack, and a
\* failing load, set_default_locale and the queries leave it as it is: it is
\* always the fallback pack followed by the packs loaded since the last
\* clear, in load order.
C15_FallbackThenLoadedPacks ==
  /\ packs = <<FallbackPack>>
  /\ [][/\ packs' = (IF call'.op = "clear_packs" THEN <<FallbackPack>>
                     ELSE IF IsLoad(call') /\ call'.ok THEN Append(packs, call'.pack)
                     ELSE packs)
        /\ packs' # <<>>
        /\ packs'[1] = FallbackPack]_vars

\* Two packs loaded one after the other, the second from bytes.
C15_Witness ==
  /\ call.op = "load_pack_bytes"
  /\ call.ok
  /\ call.before.packs = <<FallbackPack, PackB>>
  /\ packs = <<FallbackPack, PackB, PackA>>

\* C21: a lookup without a locale returns what the lookup with the current
\* default locale returns; the default is "en" at construction and L after
\* set_default_locale(L), which changes neither the pack list nor a lookup
\* with an explicit locale.
C21_DefaultLocale ==
  /\ [](/\ call.op = "new" => default_locale = S_en
        /\ (call.op = "resolve_key" /\ call.locale = None) =>
             call.ret = resolve_key_alias(manager, call.key, Some(default_locale))
        /\ (call.op = "resolve_type" /\ call.locale = None) =>
             call.ret = resolve_type_alias(manager, call.key, Some(default_locale)))
  /\ [][/\ default_locale' = (IF call'.op = "set_default_locale" THEN call'.locale
                              ELSE default_locale)
        /\ call'.op = "set_default_locale" =>
             /\ packs' = packs
             /\ \A k \in RawKeys, l \in Locales :
                  /\ resolve_key_alias(manager', k, Some(l))
                       = resolve_key_alias(manager, k, Some(l))
                  /\ resolve_type_alias(manager', k, Some(l))
                       = resolve_type_alias(manager, k, Some(l))]_vars

\* With default fr-CA a lookup without a locale finds the fr-CA entry, which
\* the "en" chain does not reach.
C21_Witness ==
  /\ call.op = "resolve_key"
  /\ call.locale = None
  /\ call.key = S_tel
  /\ default_locale = S_frCA
  /\ packs = <<FallbackPack, PackA>>
  /\ call.ret = Some(S_phones)
  /\ resolve_key_alias(manager, S_tel, Some(S_en)) = Some(S_name)

(***************************************************************************)
(* Properties of the document assembler.                                   *)
(***************************************************************************)
IsParse == call.op = "parse_lenient"
IsParseOfMapping == IsParse /\ call.value.t = "Mapping"

\* The top-level entries of the parsed mapping whose string key resolves to
\* a name that satisfies P.
EntriesResolving(P(_)) ==
  SelectSeq(call.value.v,
            LAMBDA e : e.k.t = "String"
                       /\ P(normalize_field_key(manager, e.k.v, call.locale)))

ShorthandEntries == EntriesResolving(LAMBDA nk : starts_with(nk, S_phones_type))
ExplicitPhonesEntries == EntriesResolving(LAMBDA nk : nk = S_phones)

\* The PhoneKind of the <TAG> of a shorthand entry.
TagKind(e) ==
  PhoneType_from_str_with_locale(
    strip_prefix(normalize_field_key(manager, e.k.v, call.locale), S_phones_type).val,
    unwrap_or(call.locale, S_en))

\* C5: lenient assembly of a top-level value that is not a mapping fails with
\* a Schema error.
C5_NonMappingIsSchemaError ==
  (IsParse /\ call.value.t # "Mapping") =>
    (~call.ret.ok /\ call.ret.err = "Schema")

\* C6: every successful phone-number normalization is '+' followed only by
\* digits, also for inputs with a '+' after the first character.
C6_PlusThenDigitsOnly ==
  (call.op = "normalize_phone_number" /\ call.ret.ok) =>
    /\ Len(call.ret.val) >= 1
    /\ call.ret.val[1] = "+"
    /\ \A i \in 2..Len(call.ret.val) : is_numeric(call.ret.val[i])

\* C7: every Phone of a Document returned by lenient assembly has a non-empty
\* number.
C7_PhoneNumberNonEmpty ==
  (IsParse /\ call.ret.ok /\ call.ret.val.phones.some) =>
    \A i \in 1..Len(call.ret.val.phones.val) :
      call.ret.val.phones.val[i].number # <<>>

\* C8: the shorthand pass removes every key resolving to phones.type:<TAG>
\* from the working set, and every Phone made from such a key's value carries
\* the kind of a <TAG> (checked where no explicit phones key replaces them).
C8_ShorthandPhonesCarryTagKind ==
  (IsParseOfMapping /\ call.ret.ok /\ ExplicitPhonesEntries = <<>>) =>
    LET s == extract_shorthand_phones(manager, call.value.v, YCard_default,
                                      call.locale, map_remove)
    IN  /\ s.ok
        /\ \A i \in 1..Len(s.val.map) :
             ~is_shorthand(manager, s.val.map[i].k, call.locale)
        /\ call.ret.val.phones.some =>
             \A i \in 1..Len(call.ret.val.phones.val) :
               \E j \in 1..Len(ShorthandEntries) :
                 call.ret.val.phones.val[i].type = <<TagKind(ShorthandEntries[j])>>

\* C9: with shorthand phone keys and a key resolving to phones in one
\* document, the phone list is the list coerced from the explicit phones
\* value alone, wherever the keys stand in the input.
C9_ExplicitPhonesReplaceShorthand ==
  (IsParseOfMapping /\ call.ret.ok /\ ExplicitPhonesEntries # <<>>) =>
    \E j \in 1..Len(ExplicitPhonesEntries) :
      call.ret.val.phones
        = Some(extract_phones(ExplicitPhonesEntries[j].v, call.locale).val)

\* The explicit key comes first, a shorthand key with a phone of its own
\* after it, and the document has the explicit phone only.
C9_Witness ==
  /\ IsParseOfMapping
  /\ call.ret.ok
  /\ Len(call.value.v) = 2
  /\ call.value.v[1] = Entry(VString(S_phones), VString(N_plus15))
  /\ call.value.v[2].k = VString(S_mobile)
  /\ value_to_phones(call.value.v[2].v, <<Kind("Mobile")>>, call.locale).val # <<>>
  /\ call.ret.val.phones = Some(<<Phone(N_plus15, <<Kind("Other")>>, None)>>)

\* C16: every Phone and every Email of a Document returned by lenient
\* assembly has at least one kind tag, whatever the shape of its "type" field.
C16_KindTagsNonEmpty ==
  (IsParse /\ call.ret.ok) =>
    /\ call.ret.val.phones.some =>
         \A i \in 1..Len(call.ret.val.phones.val) : call.ret.val.phones.val[i].type # <<>>
    /\ call.ret.val.emails.some =>
         \A i \in 1..Len(call.ret.val.emails.val) : call.ret.val.emails.val[i].type # <<>>

VersionEntries == EntriesResolving(LAMBDA nk : nk = S_version)

\* An unsigned small integer: a YAML integer from 0 to u8::MAX.
IsSmallUnsigned(value) == value.t = "Number" /\ value.v \in 0..255

\* C17: a version value that is an integer from 0 to 255 becomes the
\* document version; any other value (negative, float, string, above 255) is
\* ignored, and the version stays 1 where no value was taken.
C17_VersionSmallUnsignedElseIgnored ==
  (IsParseOfMapping /\ call.ret.ok) =>
    LET taken == SelectSeq(VersionEntries, LAMBDA e : IsSmallUnsigned(e.v))
    IN  call.ret.val.version = (IF taken = <<>> THEN 1 ELSE taken[Len(taken)].v.v)

\* What the coercion of a top-level entry into the field its key resolves to
\* gives: the field's value or a parse error.
FieldResult(e) ==
  LET nk == normalize_field_key(manager, e.k.v, call.locale)
  IN  IF starts_with(nk, S_phones_type)
        THEN value_to_phones(e.v, <<TagKind(e)>>, call.locale)
      ELSE IF nk = S_name THEN extract_name(manager, e.v, call.locale)
      ELSE IF nk = S_phones THEN extract_phones(e.v, call.locale)
      ELSE IF nk = S_emails THEN extract_emails(e.v, call.locale)
      ELSE IF nk = S_metadata THEN extract_metadata(e.v)
      ELSE Ok(e.v)

\* The entries of the parsed mapping whose field raises a parse error.
FailingEntries ==
  {i \in 1..Len(call.value.v) :
     /\ call.value.v[i].k.t = "String"
     /\ ~FieldResult(call.value.v[i]).ok}

\* C18: a parse error of any field ends the lenient parse: the call returns
\* that error (Yaml, Schema or Phone) and no Document, also when another key
\* would overwrite the failing field and when other fields were assembled.
C18_ParseErrorIsTerminal ==
  /\ call.op = "parse_lenient_yaml_err" =>
       (~call.ret.ok /\ call.ret.err = "Yaml" /\ "val" \notin DOMAIN call.ret)
  /\ (IsParseOfMapping /\ FailingEntries # {}) =>
       /\ ~call.ret.ok
       /\ \E i \in FailingEntries :
            /\ call.ret.err = FieldResult(call.value.v[i]).err
            /\ call.ret.what = FieldResult(call.value.v[i]).what
       /\ call.ret.err \in {"Schema", "Phone"}
       /\ "val" \notin DOMAIN call.ret

\* An explicit phone list that parses stands before a shorthand key whose
\* number cannot be normalized: the call fails with the Phone error.
C18_Witness ==
  /\ IsParseOfMapping
  /\ call.value.v = <<Entry(VString(S_phones), VString(N_plus15)),
                      Entry(VString(S_mobile), VString(N_short))>>
  /\ ~call.ret.ok
  /\ call.ret.err = "Phone"

IsStrictParse == call.op = "parse_strict"

\* C19: strict parsing fails with a Yaml error or returns the Document of an
\* input that is a mapping of canonical field names only, with the required
\* version among them; the phone numbers are taken as written.
C19_StrictOnlyCanonical ==
  IsStrictParse =>
    IF call.ret.ok
      THEN /\ call.value.t = "Mapping"
           /\ \A i \in 1..Len(call.value.v) :
                /\ call.value.v[i].k.t = "String"
                /\ call.value.v[i].k.v \in Range(YCardFields)
           /\ has_field(call.value.v, S_version)
           /\ call.ret.val.phones.some =>
                \A i \in 1..Len(call.ret.val.phones.val) :
                  call.ret.val.phones.val[i].number
                    = get_field(get_field(call.value.v, S_phones).v[i].v, S_number).v
      ELSE call.ret.err = "Yaml"

\* The names value_to_ycard has an arm for.
FieldNames ==
  {S_version, S_uid, S_name, S_phones, S_emails, S_addresses, S_manager, S_metadata}

\* The top-level entries whose key resolves to no field and to no shorthand.
UnknownKeyEntries ==
  {i \in 1..Len(call.value.v) :
     /\ call.value.v[i].k.t = "String"
     /\ LET nk == normalize_field_key(manager, call.value.v[i].k.v, call.locale)
        IN  nk \notin FieldNames /\ ~starts_with(nk, S_phones_type)}

\* The entries without the i-th.
WithoutEntry(entries, i) ==
  SubSeq(entries, 1, i - 1) \o SubSeq(entries, i + 1, Len(entries))

\* C20: a top-level key that resolves to no field and to no phone shorthand
\* causes no error and no diagnostic, and the Document is the one assembled
\* from the same input without that key, whatever the key's value.
C20_UnknownKeyDropped ==
  IsParseOfMapping =>
    \A i \in UnknownKeyEntries :
      LET without == value_to_ycard(manager, VMapping(WithoutEntry(call.value.v, i)),
                                    call.locale, map_remove)
      IN  /\ call.ret.ok = without.ok
          /\ call.ret.ok =>
               /\ call.ret.val = without.val
               /\ \A mode \in ValidationModes :
                    validate(mode, call.ret.val) = validate(mode, without.val)

\* The items of a sequence that a list coercion makes an entry of.
ListItems(seq) == SelectSeq(seq, LAMBDA item : item.t \in {"String", "Mapping"})

\* The address an Email of an item has: the string itself, or the "address"
\* of the object.
AddressOf(item) ==
  IF item.t = "String" THEN item.v
  ELSE IF has_field(item.v, S_address) THEN get_field(item.v, S_address).v
  ELSE <<>>

\* C24: email-list coercion takes a string, a sequence of strings and email
\* objects, and a single email object; each gives one Email per entry, in
\* input order, with the address as written; a single email object gives
\* exactly one Email.
C24_EmailShapesMirrorPhones ==
  call.op = "extract_emails" =>
    LET entries == IF call.value.t = "Sequence" THEN ListItems(call.value.v)
                   ELSE IF call.value.t \in {"String", "Mapping"} THEN <<call.value>>
                   ELSE <<>>
    IN  /\ call.ret.ok
        /\ Len(call.ret.val) = Len(entries)
        /\ \A i \in 1..Len(entries) : call.ret.val[i].address = AddressOf(entries[i])

\* The type tokens of a phone object: its "type" string, or the strings of
\* its "type" sequence.
TypeTokens(item) ==
  IF ~has_field(item.v, S_type) THEN <<>>
  ELSE IF get_field(item.v, S_type).t = "String" THEN <<get_field(item.v, S_type).v>>
  ELSE IF get_field(item.v, S_type).t = "Sequence" THEN strs_of(get_field(item.v, S_type).v)
  ELSE <<>>

\* C25: each "type" token of a phone is resolved to its kind through the
\* alias store's type-alias lookup for the call's locale: a token that a
\* loaded pack maps to "mobile" gives the kind Mobile, not a custom tag.
C25_TypeTokensThroughAliasStore ==
  (call.op = "extract_phones" /\ call.value.t = "Mapping" /\ call.ret.ok) =>
    LET tokens == TypeTokens(call.value)
    IN  \A i \in 1..Len(tokens) :
          LET canonical == resolve_type_alias(manager, tokens[i], call.locale)
          IN  canonical.some =>
                call.ret.val[1].type[i] = PhoneType_from_str_with_locale(canonical.val, S_en)

\* The number an entry of a phone list is written with.
NumberOf(item) ==
  IF item.t = "String" THEN item.v
  ELSE IF has_field(item.v, S_number) THEN get_field(item.v, S_number).v
  ELSE <<>>

PhoneListEntries ==
  IF call.value.t = "Sequence" THEN ListItems(call.value.v)
  ELSE IF call.value.t \in {"String", "Mapping"} THEN <<call.value>>
  ELSE <<>>

\* C26: the explicit phone list takes a string (one Phone of kind [Other]), a
\* sequence (one Phone per string item, of kind [Other], or mapping item, in
\* order) and a single mapping (one Phone); a number, a boolean or null fails
\* with the Schema error.  A number that cannot be normalized fails the call
\* with the Phone error.
C26_PhoneListShapes ==
  call.op = "extract_phones" =>
    LET entries == PhoneListEntries
        numbers == [i \in 1..Len(entries) |-> normalize_phone_number(NumberOf(entries[i]))]
    IN  IF call.value.t \notin {"String", "Sequence", "Mapping"}
          THEN ~call.ret.ok /\ call.ret.err = "Schema"
        ELSE IF \E i \in 1..Len(entries) : ~numbers[i].ok
          THEN ~call.ret.ok /\ call.ret.err = "Phone"
        ELSE /\ call.ret.ok
             /\ Len(call.ret.val) = Len(entries)
             /\ \A i \in 1..Len(entries) :
                  /\ call.ret.val[i].number = numbers[i].val
                  /\ entries[i].t = "String" => call.ret.val[i].type = <<Kind("Other")>>

\* A sequence of a phone object and a string gives the two phones in that
\* order, the second of kind [Other].
C26_Witness ==
  /\ call.op = "extract_phones"
  /\ call.value = VSequence(<<PhoneObject(<<Entry(VString(S_number), VString(N_plus49))>>),
                              VString(N_fr_spaced)>>)
  /\ call.ret.ok
  /\ Len(call.ret.val) = 2
  /\ call.ret.val[1].number = <<"+","4","9","3","0">>
  /\ call.ret.val[2].type = <<Kind("Other")>>

\* The mapping as the loop of value_to_ycard walks it: the parsed mapping
\* after the shorthand keys were removed from it.
Walked ==
  extract_shorthand_phones(manager, call.value.v, YCard_default, call.locale, map_remove).val.map

\* The values of the walked entries whose key resolves to the field `nk`.
ValuesFor(nk) ==
  LET es == SelectSeq(Walked, LAMBDA e : e.k.t = "String"
                        /\ normalize_field_key(manager, e.k.v, call.locale) = nk)
  IN  [i \in 1..Len(es) |-> es[i].v]

Last(seq) == seq[Len(seq)]

\* C29: when several top-level keys resolve to the same field, the field has
\* the value coerced from the key that is last in the mapping's iteration
\* order; the values of the earlier keys are replaced, not merged.
C29_LastKeyWins ==
  (IsParseOfMapping /\ call.ret.ok) =>
    /\ ValuesFor(S_phones) # <<>> =>
         call.ret.val.phones = Some(extract_phones(Last(ValuesFor(S_phones)), call.locale).val)
    /\ ValuesFor(S_emails) # <<>> =>
         call.ret.val.emails = Some(extract_emails(Last(ValuesFor(S_emails)), call.locale).val)
    /\ ValuesFor(S_name) # <<>> =>
         call.ret.val.name = Some(extract_name(manager, Last(ValuesFor(S_name)), call.locale).val)

\* "tel" (an alias of emails under fr) and "emails" after a shorthand key, in
\* a build whose Mapping::remove moves the last entry: "tel" is walked last,
\* and the document has its address alone.
C29_Witness ==
  /\ IsParseOfMapping
  /\ map_remove = "swap_remove"
  /\ call.locale = Some(S_fr)
  /\ call.value.v = <<Entry(VString(S_mobile), VString(N_plus15)),
                      Entry(VString(S_tel), VString(S_jane_at)),
                      Entry(VString(S_emails), VString(S_jane))>>
  /\ Len(ValuesFor(S_emails)) = 2
  /\ call.ret.ok
  /\ Len(call.ret.val.emails.val) = 1
  /\ call.ret.val.emails.val[1].address = S_jane_at

\* The Document of a lenient parse of `input` under the alias manager `self`.
DocumentUnder(self, input) == value_to_ycard(self, input.yaml, None, map_remove)

\* C27: a yc_parse takes its alias manager from the shared one in one step
\* under the lock; while the parse is in flight no step of another call
\* (yc_load_alias_pack, yc_clear_aliases, yc_set_default_locale, another
\* yc_parse) changes what it holds, and its result is the parse of its input
\* under the manager it took; a failing yc_load_alias_pack leaves the shared
\* manager as it was.
C27_ParseUsesSnapshot ==
  [][/\ \A t \in Threads :
          /\ (threads[t].pc = "idle" /\ threads'[t].pc = "parse") =>
               threads'[t].alias_manager = Some(manager)
          /\ (threads[t].pc = "parse" /\ threads'[t].pc = "parse") =>
               threads'[t] = threads[t]
          /\ (threads[t].pc = "parse" /\ threads'[t].pc = "insert") =>
               LET r == DocumentUnder(threads[t].alias_manager.val, threads[t].input.val)
               IN  r.ok /\ threads'[t].ycard = Some(r.val)
          /\ (threads[t].pc = "parse" /\ threads'[t].pc = "idle") =>
               /\ call'.op = "yc_parse" /\ call'.ret = -1
               /\ \/ poisoned
                  \/ ~DocumentUnder(threads[t].alias_manager.val, threads[t].input.val).ok
          /\ (threads[t].pc = "insert" /\ threads'[t].pc = "idle") =>
               /\ call'.op = "yc_parse" /\ call'.ret = threads[t].handle
               /\ arena'[threads[t].handle] = threads[t].ycard.val
     /\ (call'.op = "yc_load_alias_pack" /\ call'.ret = -1) =>
          (packs' = packs /\ default_locale' = default_locale)
    ]_vars

\* A parse is in flight with the pack it took, after yc_clear_aliases removed
\* the pack from the shared manager; its input parses to another Document
\* under the shared manager.
C27_Witness ==
  \E t \in Threads :
    /\ threads[t].pc = "parse"
    /\ call.op = "yc_clear_aliases"
    /\ threads[t].alias_manager.val # manager
    /\ DocumentUnder(threads[t].alias_manager.val, threads[t].input.val).ok
    /\ DocumentUnder(threads[t].alias_manager.val, threads[t].input.val)
         # DocumentUnder(manager, threads[t].input.val)

\* C28: the handles of yc_parse are positive and strictly increasing in the
\* order they are taken, also with two calls in flight and after yc_free; a
\* document of the arena has a handle that was taken, no two calls in flight
\* hold the same handle, and a call that returns -1 leaves the arena as it
\* was.
C28_HandlesFreshAndIncreasing ==
  /\ [](/\ \A i \in 1..Len(returned) : returned[i] > 0
        /\ \A i, j \in 1..Len(returned) : i < j => returned[i] < returned[j]
        /\ DOMAIN arena \subseteq Range(returned)
        /\ \A t, u \in Threads :
             (t # u /\ threads[t].pc = "insert" /\ threads[u].pc = "insert") =>
               threads[t].handle # threads[u].handle
        /\ \A t \in Threads :
             threads[t].pc = "insert" => threads[t].handle \notin DOMAIN arena)
  /\ [][(call'.op = "yc_parse" /\ call'.ret = -1) => arena' = arena]_vars

\* C30: a call that fails leaves its message in the last-error slot, a call
\* that succeeds leaves the slot as it was, a slot once set is never empty
\* again, and yc_last_error reports the message of the slot, or no error while
\* the slot is empty.
C30_LastErrorKept ==
  /\ [](/\ (call.op # "new" /\ call.ret = -1) => last_error = Some(call.error)
        /\ call.op = "yc_last_error" =>
             IF last_error.some THEN call.ret # 0 /\ call.read = last_error.val
             ELSE call.ret = 0)
  /\ [][/\ (call'.op # "new" /\ call'.ret # -1) => last_error' = last_error
        /\ last_error.some => last_error'.some]_vars

(***************************************************************************)
(* Properties of the diagnostics engine.                                   *)
(***************************************************************************)
\* C10: Strict validation returns no Warning, and every diagnostic that
\* Lenient validation of the same Document reports as a Warning is in the
\* Strict result with the same code at Error severity.
C10_StrictHasNoWarning ==
  (call.op = "validate" /\ call.mode = "Strict") =>
    LET strict == call.ret.val
        lenient == validate("Lenient", call.ycard).val
    IN  /\ call.ret.ok
        /\ \A i \in 1..Len(strict) : strict[i].level # "Warning"
        /\ \A i \in 1..Len(lenient) :
             lenient[i].level = "Warning" =>
               \E j \in 1..Len(strict) :
                 /\ strict[j].code = lenient[i].code
                 /\ strict[j].message = lenient[i].message
                 /\ strict[j].level = "Error"

\* A Document without version and with a phone number lacking '+': two
\* lenient warnings, both errors in the Strict result.
C10_Witness ==
  /\ call.op = "validate"
  /\ call.mode = "Strict"
  /\ call.ycard.version = 0
  /\ call.ycard.phones = Some(<<Phone(N_short, <<Kind("Other")>>, None)>>)
  /\ Len(call.ret.val) = 2
  /\ call.ret.val[1].code = Some("version-missing")
  /\ call.ret.val[2].code = Some("phone-format")
  /\ \A i \in 1..2 : call.ret.val[i].level = "Error"
  /\ \A i \in 1..2 : validate_lenient(call.ycard)[i].level = "Warning"

Codes(diagnostics) == [i \in 1..Len(diagnostics) |-> diagnostics[i].code]
CountCode(diagnostics, code) ==
  Cardinality({i \in 1..Len(diagnostics) : diagnostics[i].code = Some(code)})

\* C11: Strict validation reports Error empty-contact exactly when name,
\* phones and emails are all absent; a present empty list is present; the
\* default Document gets it.
C11_EmptyContactIffAllAbsent ==
  (call.op = "validate" /\ call.mode = "Strict") =>
    LET d == call.ret.val
        absent == /\ call.ycard.name = None
                  /\ call.ycard.phones = None
                  /\ call.ycard.emails = None
    IN  /\ call.ret.ok
        /\ CountCode(d, "empty-contact") = (IF absent THEN 1 ELSE 0)
        /\ \A i \in 1..Len(d) : d[i].code = Some("empty-contact") => d[i].level = "Error"
        /\ call.ycard = YCard_default => CountCode(d, "empty-contact") >= 1

\* Present but empty lists and no name: no empty-contact.
C11_Witness ==
  /\ call.op = "validate"
  /\ call.mode = "Strict"
  /\ call.ycard.name = None
  /\ call.ycard.phones = Some(<<>>)
  /\ call.ycard.emails = Some(<<>>)
  /\ CountCode(call.ret.val, "empty-contact") = 0

\* The numbers of the phones that do not start with '+', in list order.
NumbersWithoutPlus(ycard) ==
  IF ycard.phones = None THEN <<>>
  ELSE LET ps == SelectSeq(ycard.phones.val,
                           LAMBDA p : p.number = <<>> \/ Head(p.number) # "+")
       IN  [i \in 1..Len(ps) |-> ps[i].number]

\* The addresses of the emails without '@', in list order.
AddressesWithoutAt(ycard) ==
  IF ycard.emails = None THEN <<>>
  ELSE LET es == SelectSeq(ycard.emails.val, LAMBDA e : "@" \notin Range(e.address))
       IN  [i \in 1..Len(es) |-> es[i].address]

\* C12: Lenient validation returns, in this order and nothing else: one
\* Warning version-missing with the edit inserting "version: 1" iff version
\* is 0; one Warning phone-format per phone without a leading '+', in list
\* order; one Error email-invalid per email without '@', in list order.
C12_LenientDiagnosticsExact ==
  (call.op = "validate" /\ call.mode = "Lenient") =>
    LET d == call.ret.val
        nv == IF call.ycard.version = 0 THEN 1 ELSE 0
        bp == NumbersWithoutPlus(call.ycard)
        be == AddressesWithoutAt(call.ycard)
    IN  /\ call.ret.ok
        /\ Len(d) = nv + Len(bp) + Len(be)
        /\ nv = 1 =>
             /\ d[1].level = "Warning"
             /\ d[1].code = Some("version-missing")
             /\ Len(d[1].fixes) = 1
             /\ d[1].fixes[1].edit.new_text = "version: 1\n"
             /\ d[1].fixes[1].edit.range.start = d[1].fixes[1].edit.range.end
        /\ \A i \in 1..Len(bp) :
             /\ d[nv + i].level = "Warning"
             /\ d[nv + i].code = Some("phone-format")
             /\ d[nv + i].message.arg = bp[i]
        /\ \A i \in 1..Len(be) :
             /\ d[nv + Len(bp) + i].level = "Error"
             /\ d[nv + Len(bp) + i].code = Some("email-invalid")
             /\ d[nv + Len(bp) + i].message.arg = be[i]

\* No version, two phones without '+' and two emails without '@': five
\* diagnostics, the phones' before the emails', each group in list order.
C12_Witness ==
  /\ call.op = "validate"
  /\ call.mode = "Lenient"
  /\ call.ycard.version = 0
  /\ call.ycard.phones = Some(<<Phone(N_short, <<Kind("Other")>>, None),
                                Phone(<<>>, <<Kind("Other")>>, None)>>)
  /\ call.ycard.emails = Some(<<Email(<<"x">>, <<Kind("Other")>>),
                                Email(S_jane, <<Kind("Other")>>)>>)
  /\ Codes(call.ret.val) = <<Some("version-missing"), Some("phone-format"),
                             Some("phone-format"), Some("email-invalid"),
                             Some("email-invalid")>>
  /\ call.ret.val[2].message.arg = N_short
  /\ call.ret.val[5].message.arg = S_jane

\* C13: SchemaOnly validation returns one Error version-unsupported when
\* version is above 1 and nothing otherwise, whatever name, phones and emails
\* hold.
C13_SchemaOnlyVersionOnly ==
  (call.op = "validate" /\ call.mode = "SchemaOnly") =>
    LET d == call.ret.val
    IN  /\ call.ret.ok
        /\ IF call.ycard.version > 1
             THEN /\ Len(d) = 1
                  /\ d[1].level = "Error"
                  /\ d[1].code = Some("version-unsupported")
             ELSE d = <<>>

\* Version 0, a phone without '+' and an email without '@': no diagnostic.
C13_Witness ==
  /\ call.op = "validate"
  /\ call.mode = "SchemaOnly"
  /\ call.ycard.version = 0
  /\ NumbersWithoutPlus(call.ycard) # <<>>
  /\ AddressesWithoutAt(call.ycard) # <<>>
  /\ call.ret.val = <<>>

DiagnosticLevels == {"Error", "Warning", "Info", "Hint"}

JaneDoeDoc ==
  VMapping(<<Entry(VString(S_version), VNumber(1)),
             Entry(VString(S_name), VString(S_Jane_Doe)),
             Entry(VString(S_mobile), VString(N_us_spaced)),
             Entry(VString(S_email), VString(S_jane_example))>>)

====
